---- MODULE Spec2Model ----
(***************************************************************************)
(* Order repository (ordersService.ts), conversation registry and cards    *)
(* (botService.ts) and the HTTP and bot handlers of the Teams order tab    *)
(* (index.ts) as a state machine over the Orders and BotSubscriptions      *)
(* tables, the live event streams and the notification fan-out.            *)
(*                                                                         *)
(* Strings whose characters matter (row keys, order ids, conversation ids, *)
(* amounts sent as text) are sequences of one-character strings; customer  *)
(* names, statuses and dates are compared as wholes and are plain strings. *)
(***************************************************************************)
EXTENDS Integers, Sequences, FiniteSets, TLC

\* ------------------------------------------------------------------ bounds
\* Calls (HTTP requests) that can be in flight at the same time.
MaxCalls == 2
\* Requests started in one run.
MaxOps == 2
\* Store operations that may fail (StoreUnavailable / StoreWriteFailed) in one run.
MaxFaults == 1
\* Rows of the Orders table in an initial state.
MaxInitRows == 2
\* createOrder calls of the serialized creation runs.
MaxCreates == 3
\* Startups (seedIfEmpty runs) of the seeding runs.
MaxBoots == 2
\* Requests served on one arbitrary table content.
MaxStoreOps == 1
\* Runs of the random generator a start can draw.
MaxRandomRuns == 2
\* Event streams that can connect in one run.
MaxSessions == 2
\* Registrations in the registry of an initial state.
MaxInitSubs == 2
\* Install events of one run.
MaxInstalls == 2
\* Orders posted in one fan-out run.
MaxPosts == 1
\* Card actions and PUT requests handled in one run of the bot's handlers.
MaxActions == 1
\* Orders created and card actions handled while the Home view is shown.
MaxHomeOps == 1
\* Events that reach the Home view's onmessage.
MaxHeard == 2

\* ------------------------------------------------------- program constants
\* generateOrders(100)
SeedCount == 100
\* padStart(3, "0")
PadWidth == 3

STATUSES == <<"Submitted", "Pending", "Processing", "Shipped", "Delivered", "Cancelled">>

\* ----------------------------------------------------------------- strings
Digits == <<"0", "1", "2", "3", "4", "5", "6", "7", "8", "9">>

IsDigit(c) == \E i \in 1..10 : Digits[i] = c

DigitValue(c) == (CHOOSE i \in 1..10 : Digits[i] = c) - 1

Upper ==
    <<"A", "B", "C", "D", "E", "F", "G", "H", "I", "J", "K", "L", "M",
      "N", "O", "P", "Q", "R", "S", "T", "U", "V", "W", "X", "Y", "Z">>

Lower ==
    <<"a", "b", "c", "d", "e", "f", "g", "h", "i", "j", "k", "l", "m",
      "n", "o", "p", "q", "r", "s", "t", "u", "v", "w", "x", "y", "z">>

\* The UTF-16 code unit of a character of the row-key and conversation-id
\* alphabets; all are ASCII, so it is also the character's one UTF-8 byte.
CharCode(c) ==
    CASE \E i \in 1..26 : Upper[i] = c -> 64 + (CHOOSE i \in 1..26 : Upper[i] = c)
      [] \E i \in 1..26 : Lower[i] = c -> 96 + (CHOOSE i \in 1..26 : Lower[i] = c)
      [] IsDigit(c) -> 48 + DigitValue(c)
      [] c = "+" -> 43
      [] c = "-" -> 45
      [] c = "/" -> 47
      [] c = ":" -> 58
      [] c = "=" -> 61
      [] c = ">" -> 62
      [] c = "?" -> 63
      [] c = "_" -> 95

\* String(n) for an integer n >= 0.
RECURSIVE NumberToString(_)
NumberToString(n) ==
    IF n < 10 THEN <<Digits[n + 1]>>
    ELSE NumberToString(n \div 10) \o <<Digits[(n % 10) + 1]>>

\* s.padStart(targetLength, padChar) with a one-character pad.
RECURSIVE padStart(_, _, _)
padStart(s, targetLength, padChar) ==
    IF Len(s) >= targetLength THEN s
    ELSE padStart(<<padChar>> \o s, targetLength, padChar)

\* parseInt(s, 10) of a non-empty string of digits.
RECURSIVE parseInt(_)
parseInt(s) ==
    IF s = <<>> THEN 0
    ELSE parseInt(SubSeq(s, 1, Len(s) - 1)) * 10 + DigitValue(s[Len(s)])

OrdPrefix == <<"O", "R", "D", "-">>

\* rowKey.match(/^ORD-(\d+)$/): the captured digits, or <<>> when there is no match.
MatchOrd(rowKey) ==
    IF /\ Len(rowKey) > Len(OrdPrefix)
       /\ SubSeq(rowKey, 1, Len(OrdPrefix)) = OrdPrefix
       /\ \A i \in (Len(OrdPrefix) + 1)..Len(rowKey) : IsDigit(rowKey[i])
    THEN SubSeq(rowKey, Len(OrdPrefix) + 1, Len(rowKey))
    ELSE <<>>

\* The id without its zero padding.
FormatIdUnpadded(n) == OrdPrefix \o NumberToString(n)

\* `ORD-${String(n).padStart(3, "0")}`
FormatId(n) == OrdPrefix \o padStart(NumberToString(n), PadWidth, "0")

\* Comparison of two sequences of character weights, position by position:
\* -1, 0 or 1; a proper prefix sorts first.
RECURSIVE CompareWeights(_, _)
CompareWeights(a, b) ==
    IF a = <<>> /\ b = <<>> THEN 0
    ELSE IF a = <<>> THEN -1
    ELSE IF b = <<>> THEN 1
    ELSE IF Head(a) < Head(b) THEN -1
    ELSE IF Head(a) > Head(b) THEN 1
    ELSE CompareWeights(Tail(a), Tail(b))

\* The table service orders row keys by code unit.
OrdinalCompare(a, b) ==
    CompareWeights([i \in 1..Len(a) |-> CharCode(a[i])], [i \in 1..Len(b) |-> CharCode(b[i])])

\* The collation weight of a character in the default locale comparison:
\* punctuation before digits before letters, letters in alphabetical order.
CollationWeight(c) ==
    CASE c = "-" -> 1
      [] IsDigit(c) -> 10 + DigitValue(c)
      [] c = "A" -> 30
      [] c = "D" -> 33
      [] c = "O" -> 44
      [] c = "R" -> 47
      [] c = "X" -> 53

\* a.localeCompare(b)
localeCompare(a, b) ==
    CompareWeights([i \in 1..Len(a) |-> CollationWeight(a[i])],
                   [i \in 1..Len(b) |-> CollationWeight(b[i])])

\* ------------------------------------------------------------------ values
\* A JavaScript value in an amount position: a number, NaN, a string, or an
\* absent (undefined) property.
Num(n) == [t |-> "num", n |-> n, s |-> <<>>]

NaN == [t |-> "nan", n |-> 0, s |-> <<>>]

Str(s) == [t |-> "str", n |-> 0, s |-> s]

UndefinedAmount == [t |-> "undefined", n |-> 0, s |-> <<>>]

\* An absent string property (customer, status, date).
Undefined == "<undefined>"

\* Number(v)
Number(v) ==
    CASE v.t = "num" -> v
      [] v.t = "nan" -> NaN
      [] v.t = "undefined" -> NaN
      [] v.t = "str" ->
            IF v.s = <<>> THEN Num(0)
            ELSE IF \A i \in 1..Len(v.s) : IsDigit(v.s[i]) THEN Num(parseInt(v.s))
            ELSE NaN

\* a ?? b on a string property
Coalesce(a, b) == IF a = Undefined THEN b ELSE a

\* a ?? b on an amount property
CoalesceAmount(a, b) == IF a.t = "undefined" THEN b ELSE a

\* interface Order
Order(id, customer, amount, status, date) ==
    [id |-> id, customer |-> customer, amount |-> amount, status |-> status, date |-> date]

NoOrder == Order(<<>>, "", UndefinedAmount, "", "")

\* The properties of a stored entity besides its keys.
Entity(customer, amount, status, date) ==
    [customer |-> customer, amount |-> amount, status |-> status, date |-> date]

NoEntity == Entity("", UndefinedAmount, "", "")

EmptyTable == [k \in {} |-> NoEntity]

\* The table with the entity e stored under rowKey (created or replaced).
Put(t, rowKey, e) ==
    [k \in DOMAIN t \cup {rowKey} |-> IF k = rowKey THEN e ELSE t[k]]

\* The row keys of ks in the order the table service lists them: ascending by
\* code unit.
RECURSIVE KeysInOrder(_)
KeysInOrder(ks) ==
    IF ks = {} THEN <<>>
    ELSE LET first == CHOOSE k \in ks : \A o \in ks : OrdinalCompare(k, o) <= 0
         IN <<first>> \o KeysInOrder(ks \ {first})

\* table.listEntities(): the rows of t, each with its rowKey.
listEntities(t) ==
    LET ks == KeysInOrder(DOMAIN t)
    IN [i \in 1..Len(ks) |-> [rowKey |-> ks[i], customer |-> t[ks[i]].customer,
                              amount |-> t[ks[i]].amount, status |-> t[ks[i]].status,
                              date |-> t[ks[i]].date]]

\* ------------------------------------------- conversation registry
Base64Alphabet == Upper \o Lower \o Digits \o <<"+", "/">>

\* Buffer.from(s): the UTF-8 bytes of an ASCII string.
Utf8(s) == [i \in 1..Len(s) |-> CharCode(s[i])]

\* bytes.toString("base64"): three bytes become four characters, the last
\* group is padded with "=".
RECURSIVE Base64(_)
Base64(bytes) ==
    LET A == Base64Alphabet
        b1 == bytes[1]
        b2 == bytes[2]
        b3 == bytes[3]
    IN IF bytes = <<>> THEN <<>>
       ELSE IF Len(bytes) = 1
       THEN <<A[(b1 \div 4) + 1], A[((b1 % 4) * 16) + 1], "=", "=">>
       ELSE IF Len(bytes) = 2
       THEN <<A[(b1 \div 4) + 1], A[((b1 % 4) * 16) + (b2 \div 16) + 1],
              A[((b2 % 16) * 4) + 1], "=">>
       ELSE <<A[(b1 \div 4) + 1], A[((b1 % 4) * 16) + (b2 \div 16) + 1],
              A[((b2 % 16) * 4) + (b3 \div 64) + 1], A[(b3 % 64) + 1]>>
              \o Base64(SubSeq(bytes, 4, Len(bytes)))

\* Buffer.from(conversationId).toString("base64").replace(/[/+=]/g, "_")
SubRowKey(conversationId) ==
    LET b == Base64(Utf8(conversationId))
    IN [i \in 1..Len(b) |-> IF b[i] \in {"/", "+", "="} THEN "_" ELSE b[i]]

\* The properties of a BotSubscriptions entity besides its keys.
Registration(conversationId, serviceUrl) ==
    [conversationId |-> conversationId, serviceUrl |-> serviceUrl]

NoRegistration == Registration(<<>>, "")

EmptySubs == [k \in {} |-> NoRegistration]

\* The table without the row rowKey.
Remove(t, rowKey) == [k \in DOMAIN t \ {rowKey} |-> t[k]]

\* listConversations on the registry content t: the conversationId of every
\* row that has a non-empty one, in the order the rows are listed.
listConversations(t) ==
    LET ks == KeysInOrder(DOMAIN t)
        ids == [i \in 1..Len(ks) |-> t[ks[i]].conversationId]
    IN SelectSeq(ids, LAMBDA id : id # <<>>)

\* The conversation ids of install events: two that differ in their last
\* character only, and a third.
ConversationIds == {<<"a", "b", ">">>, <<"a", "b", "?">>, <<"a", ":", "b">>}

ServiceUrls == {"https://smba.example/amer", "https://smba.example/emea"}

\* ------------------------------------------------------------------- state
VARIABLES
    table,      \* the Orders table: row key -> entity
    call,       \* call[c]: the request in slot c, its position and locals
    notified,   \* the orders handed to the notify callback, in call order
    faults,     \* store operations that have failed so far
    ops,        \* requests started so far
    created,    \* whether the Orders table has been created
    boot,       \* boot[b]: the b-th start of the server, seedIfEmpty's position
    sseClients, \* the set of live event streams (responses of /api/orders/events)
    sessions,   \* sessions[s]: the connection of stream s and what was written to it
    subs,       \* the BotSubscriptions table: row key -> registration
    installed,  \* the conversations whose latest install event was install.add
    fanout,     \* fanout[n]: the card deliveries for the n-th notified order
    home        \* the Home view of one browser tab: its orders and what reached it

vars ==
    <<table, call, notified, faults, ops, created, boot,
      sseClients, sessions, subs, installed, fanout, home>>

\* What the request handlers leave alone.
startup == <<created, boot>>

\* The live event streams.
live == <<sseClients, sessions>>

\* The conversation registry.
registry == <<subs, installed>>

\* Everything the notification of orders reads or writes.
notification == <<sseClients, sessions, subs, installed, fanout>>

Calls == 1..MaxCalls

\* The value a repository function returned or threw.
NoResult == [kind |-> "none", order |-> NoOrder, count |-> 0, list |-> <<>>, error |-> ""]

Returned(order, count, list) ==
    [kind |-> "ok", order |-> order, count |-> count, list |-> list, error |-> ""]

Thrown(error) ==
    [kind |-> "throw", order |-> NoOrder, count |-> 0, list |-> <<>>, error |-> error]

\* The HTTP response of a handler: res.status(code).json(body).
\* and the value a bot handler returns: a card (its header and the order its
\* facts show) or an error value.
NoResponse ==
    [status |-> 0, type |-> "", order |-> NoOrder, count |-> 0, list |-> <<>>,
     error |-> "", code |-> "", header |-> <<>>, actedBy |-> ""]

Json(status, r) ==
    [NoResponse EXCEPT !.status = status, !.type = "application/json",
       !.order = r.order, !.count = r.count, !.list = r.list]

ErrorJson(error) ==
    [NoResponse EXCEPT !.status = 500, !.type = "application/json", !.error = error]

\* { statusCode, type: "application/vnd.microsoft.error", value: { code, message, ... } }
ErrorValue(statusCode, code, message) ==
    [NoResponse EXCEPT !.status = statusCode, !.type = "application/vnd.microsoft.error",
       !.code = code, !.error = message]

\* A request body of POST /api/orders: customer and amount, and whatever else
\* the client put in.
Body(customer, amount, status, date) ==
    [customer |-> customer, amount |-> amount, status |-> status, date |-> date]

NoBody == Body(Undefined, UndefinedAmount, Undefined, Undefined)

IdleCall ==
    [op |-> "idle", pc |-> "idle", id |-> <<>>, data |-> NoEntity,
     oldName |-> "", newName |-> "", maxNum |-> 0, toUpdate |-> <<>>, i |-> 0,
     existing |-> NoEntity, err |-> "", ret |-> NoResult, resp |-> NoResponse,
     pre |-> EmptyTable, body |-> NoBody, verb |-> "", orderId |-> UndefinedAmount,
     now |-> [date |-> "", time |-> ""], actedBy |-> "", conv |-> <<>>,
     serviceUrl |-> "", preSubs |-> EmptySubs]

\* A slot that can take a new request.
Free(c) == call[c].pc \in {"idle", "done"}

\* No request is between its first and its last step.
Quiet == \A c \in Calls : Free(c)

StoreUnavailable == "RestError: StoreUnavailable"

EntityAlreadyExists == "RestError: EntityAlreadyExists"

ResourceNotFound == "RestError: ResourceNotFound"

\* Whether this store operation fails for a reason of the store's own.
FaultChoices == IF faults < MaxFaults THEN {FALSE, TRUE} ELSE {FALSE}

\* ------------------------------------------------------------------ inputs
Customers == {"Acme", "Bolt"}

Dates == {"2026-02-24"}

\* The amounts a POST body carries: a number, a numeric string, other text.
RawAmounts == {Num(10), Str(<<"2", "5">>), Str(<<"X">>)}

\* --------------------------------------------------- live event streams
Sessions == 1..MaxSessions

\* A stream: "none" before its request, "open" while the request is
\* connected, "destroyed" once the connection is gone and the request's close
\* event is still to come, "closed" after it; ended is writableEnded; wrote is
\* what client.write was handed.
NoSession == [state |-> "none", ended |-> FALSE, wrote |-> <<>>]

Null == [t |-> "null", n |-> 0, s |-> <<>>]

\* JSON.stringify of an order: NaN is written as null.
Stringify(order) == [order EXCEPT !.amount = IF @.t = "nan" THEN Null ELSE @]

\* `data: ${JSON.stringify(order)}\n\n`
NewOrderPayload(order) == [type |-> Undefined, order |-> Stringify(order)]

\* `data: ${JSON.stringify({ type: "order.updated", order: updated })}\n\n`
UpdatedPayload(order) == [type |-> "order.updated", order |-> Stringify(order)]

\* The loop that writes to every stream it finds, ended or not.
WriteAllUnguarded(payload) ==
    [s \in Sessions |->
        IF s \in sseClients
        THEN [sessions[s] EXCEPT
                !.wrote = Append(@, [payload |-> payload,
                                     delivered |-> sessions[s].state = "open"])]
        ELSE sessions[s]]

\* for (const client of sseClients) if (!client.writableEnded) client.write(payload):
\* a write to a destroyed connection is dropped, and reported to no one.
WriteAll(payload) ==
    [s \in Sessions |->
        IF s \in sseClients /\ ~sessions[s].ended
        THEN [sessions[s] EXCEPT
                !.wrote = Append(@, [payload |-> payload,
                                     delivered |-> sessions[s].state = "open"])]
        ELSE sessions[s]]

\* ------------------------------------------------------ card deliveries
\* The deliveries of one broadcastNewOrder: listed is what listConversations
\* answered, attempts the conversations app.send was called for, fate what
\* becomes of each delivery, settled what has become of it so far, errors the
\* error lines logged.
NewFanout ==
    [pc |-> "list", listed |-> <<>>, attempts |-> <<>>, fate |-> <<>>,
     settled |-> <<>>, errors |-> <<>>]

\* ----------------------------------------------------- POST /api/orders
\* What a body carries besides customer and amount: nothing, or a status and
\* a date of the client's choosing.
BodyExtras ==
    {[status |-> Undefined, date |-> Undefined],
     [status |-> "Delivered", date |-> "1999-12-31"]}

Bodies ==
    {Body(customer, rawAmount, x.status, x.date) :
        customer \in Customers, rawAmount \in RawAmounts, x \in BodyExtras}

\* new Date(): the instant the handler runs at, as its UTC date and time of day.
Instants == {[date |-> d, time |-> "23:30:00.000Z"] : d \in Dates}

\* now.toISOString().slice(0, 10): the UTC calendar date of the instant.
IsoDate(now) == now.date

\* The handler that lets the body's status and date through.
PostOrdersFromBody(c) ==
    /\ Free(c)
    /\ \E body \in Bodies, now \in Instants :
         call' = [call EXCEPT ![c] =
                    [IdleCall EXCEPT !.op = "create", !.pc = "scan", !.body = body,
                       !.now = now,
                       !.data = Entity(body.customer, Number(body.amount),
                                       Coalesce(body.status, "Submitted"),
                                       Coalesce(body.date, IsoDate(now))),
                       !.pre = table]]
    /\ ops' = ops + 1
    /\ UNCHANGED <<table, notified, faults, startup, notification, home>>

\* The handler up to createOrder's first await: the body is destructured, the
\* amount coerced, status and date fixed, and the row keys requested.
PostOrders(c) ==
    /\ Free(c)
    /\ \E body \in Bodies, now \in Instants :
         call' = [call EXCEPT ![c] =
                    [IdleCall EXCEPT !.op = "create", !.pc = "scan", !.body = body,
                       !.now = now,
                       !.data = Entity(body.customer, Number(body.amount), "Submitted",
                                       IsoDate(now)),
                       !.pre = table]]
    /\ ops' = ops + 1
    /\ UNCHANGED <<table, notified, faults, startup, notification, home>>

\* maxNum after the loop over the listed row keys.
RECURSIVE ScanMax(_, _)
ScanMax(entities, maxNum) ==
    IF entities = <<>> THEN maxNum
    ELSE LET match == MatchOrd(Head(entities).rowKey)
             n == IF match # <<>> THEN parseInt(match) ELSE 0
         IN ScanMax(Tail(entities),
                    IF match # <<>> /\ n > maxNum THEN n ELSE maxNum)

\* The id taken from the number of rows instead of the largest suffix.
NextOrderIdByCount(t) == FormatId(Cardinality(DOMAIN t) + 1)

\* The id createOrder assigns on the table content t.
NextOrderId(t) == FormatId(ScanMax(listEntities(t), 0) + 1)

\* The catch that answers 400 Bad Request.
FailBadRequest(c, error) ==
    [call[c] EXCEPT !.pc = "done", !.ret = Thrown(error),
       !.resp = [ErrorJson(error) EXCEPT !.status = 400]]

\* The handler's catch: res.status(500).json({ error: String(err) }).
\* The catch of the card.action handler returns a 500 error value instead.
Fail(c, error) ==
    [call[c] EXCEPT !.pc = "done", !.ret = Thrown(error),
       !.resp = IF call[c].op = "action" THEN ErrorValue(500, "InternalError", error)
                ELSE ErrorJson(error)]

\* createOrder: the scan of the row keys answers; the id is computed and the
\* insert is sent.
CreateScan(c) ==
    /\ call[c].op = "create" /\ call[c].pc = "scan"
    /\ \E fault \in FaultChoices :
         /\ call' = [call EXCEPT ![c] =
                       IF fault THEN Fail(c, StoreUnavailable)
                       ELSE [call[c] EXCEPT !.pc = "insert", !.id = NextOrderId(table),
                               !.maxNum = ScanMax(listEntities(table), 0)]]
         /\ faults' = IF fault THEN faults + 1 ELSE faults
    /\ UNCHANGED <<table, notified, ops, startup, notification, home>>

\* The insert as an upsert: a stored row key is silently overwritten.
CreateInsertUpsert(c) ==
    /\ call[c].op = "create" /\ call[c].pc = "insert"
    /\ \E fault \in FaultChoices :
         LET error == IF fault THEN StoreUnavailable ELSE ""
         IN /\ table' = IF error = "" THEN Put(table, call[c].id, call[c].data) ELSE table
            /\ call' = [call EXCEPT ![c].pc = "resume", ![c].err = error]
            /\ faults' = IF fault THEN faults + 1 ELSE faults
    /\ UNCHANGED <<notified, ops, startup, notification, home>>

\* createOrder: the table service applies table.createEntity, which refuses a
\* row key that is already stored.
CreateInsert(c) ==
    /\ call[c].op = "create" /\ call[c].pc = "insert"
    /\ \E fault \in FaultChoices :
         LET error == IF fault THEN StoreUnavailable
                      ELSE IF call[c].id \in DOMAIN table THEN EntityAlreadyExists
                      ELSE ""
         IN /\ table' = IF error = "" THEN Put(table, call[c].id, call[c].data) ELSE table
            /\ call' = [call EXCEPT ![c].pc = "resume", ![c].err = error]
            /\ faults' = IF fault THEN faults + 1 ELSE faults
    /\ UNCHANGED <<notified, ops, startup, notification, home>>

\* createOrder after the insert where a write to a destroyed stream throws:
\* the exception leaves broadcastNewOrder and createOrder and reaches the
\* handler's catch.
CreateResumeWriteThrows(c) ==
    /\ call[c].op = "create" /\ call[c].pc = "resume"
    /\ LET d == call[c].data
           order == Order(call[c].id, d.customer, Number(d.amount), d.status, d.date)
           broken == \E s \in sseClients :
                         ~sessions[s].ended /\ sessions[s].state = "destroyed"
       IN IF call[c].err # ""
          THEN /\ call' = [call EXCEPT ![c] = Fail(c, call[c].err)]
               /\ UNCHANGED <<notified, sessions, fanout>>
          ELSE IF broken
          THEN /\ notified' = Append(notified, order)
               /\ call' = [call EXCEPT ![c] = Fail(c, "Error: write failed")]
               /\ UNCHANGED <<sessions, fanout>>
          ELSE /\ notified' = Append(notified, order)
               /\ sessions' = WriteAll(NewOrderPayload(order))
               /\ fanout' = Append(fanout, NewFanout)
               /\ call' = [call EXCEPT ![c].pc = "done",
                             ![c].ret = Returned(order, 0, <<>>),
                             ![c].resp = Json(201, Returned(order, 0, <<>>))]
    /\ UNCHANGED <<table, faults, ops, startup, sseClients, registry, home>>

\* createOrder that hands the order to notify whether or not the insert was
\* accepted.
CreateResumeNotifiesAnyway(c) ==
    /\ call[c].op = "create" /\ call[c].pc = "resume"
    /\ LET d == call[c].data
           order == Order(call[c].id, d.customer, Number(d.amount), d.status, d.date)
       IN /\ notified' = Append(notified, order)
          /\ sessions' = WriteAll(NewOrderPayload(order))
          /\ fanout' = Append(fanout, NewFanout)
          /\ call' = [call EXCEPT ![c] =
                        IF call[c].err # "" THEN Fail(c, call[c].err)
                        ELSE [call[c] EXCEPT !.pc = "done",
                                !.ret = Returned(order, 0, <<>>),
                                !.resp = Json(201, Returned(order, 0, <<>>))]]
    /\ UNCHANGED <<table, faults, ops, startup, sseClients, registry, home>>

\* createOrder after the insert: the order is handed to notify, which writes
\* it to the live streams and starts the card deliveries without waiting for
\* them; the order is returned and the handler answers 201. A rejected insert
\* goes to the handler's catch.
CreateResume(c) ==
    /\ call[c].op = "create" /\ call[c].pc = "resume"
    /\ LET d == call[c].data
           order == Order(call[c].id, d.customer, Number(d.amount), d.status, d.date)
       IN IF call[c].err # ""
          THEN /\ call' = [call EXCEPT ![c] = Fail(c, call[c].err)]
               /\ UNCHANGED <<notified, sessions, fanout>>
          ELSE /\ notified' = Append(notified, order)
               /\ sessions' = WriteAll(NewOrderPayload(order))
               /\ fanout' = Append(fanout, NewFanout)
               /\ call' = [call EXCEPT ![c].pc = "done",
                             ![c].ret = Returned(order, 0, <<>>),
                             ![c].resp = Json(201, Returned(order, 0, <<>>))]
    /\ UNCHANGED <<table, faults, ops, startup, sseClients, registry, home>>

\* ------------------------------------------------- PUT /api/orders/:id
\* A request body of PUT /api/orders/:id: the properties it leaves out are
\* undefined.
Patch(customer, amount, status, date) == Entity(customer, amount, status, date)

EmptyPatch == Patch(Undefined, UndefinedAmount, Undefined, Undefined)

PatchStatuses == {"Pending", "Cancelled"}

StatusPatch(status) == Patch(Undefined, UndefinedAmount, status, Undefined)

Patches ==
    {EmptyPatch} \cup {StatusPatch(st) : st \in PatchStatuses}
      \cup {Patch(Undefined, Num(0), Undefined, Undefined),
            Patch("Bolt", Num(25), "Shipped", "2026-03-01")}

\* The id of the request path: a stored row key, or ORD-002 whether stored or not.
IdParams == DOMAIN table \cup {FormatId(2)}

\* The handlers that call updateOrder: PUT /api/orders/:id and card.action.
UpdateOps == {"update", "action"}

\* The handler up to updateOrder's first await: the entity is requested.
PutOrder(c) ==
    /\ Free(c)
    /\ \E id \in IdParams, patch \in Patches :
         call' = [call EXCEPT ![c] =
                    [IdleCall EXCEPT !.op = "update", !.pc = "get", !.id = id,
                       !.data = patch, !.pre = table]]
    /\ ops' = ops + 1
    /\ UNCHANGED <<table, notified, faults, startup, notification, home>>

\* The merge that coerces the patch amount before the ??: Number(undefined)
\* is NaN, which ?? keeps.
MergeCoercedAmount(patch, existing) ==
    Entity(Coalesce(patch.customer, existing.customer),
           Number(patch.amount),
           Coalesce(patch.status, existing.status),
           Coalesce(patch.date, existing.date))

\* The merge that takes the date from the patch alone.
MergeDateFromPatch(patch, existing) ==
    Entity(Coalesce(patch.customer, existing.customer),
           CoalesceAmount(patch.amount, existing.amount),
           Coalesce(patch.status, existing.status),
           patch.date)

\* const updated = { ..., customer: patch.customer ?? existing.customer, ... }
Merge(patch, existing) ==
    Entity(Coalesce(patch.customer, existing.customer),
           CoalesceAmount(patch.amount, existing.amount),
           Coalesce(patch.status, existing.status),
           Coalesce(patch.date, existing.date))

\* The read that takes a missing entity for an empty one instead of failing.
UpdateGetOrEmpty(c) ==
    /\ call[c].op \in UpdateOps /\ call[c].pc = "get"
    /\ \E fault \in FaultChoices :
         /\ call' = [call EXCEPT ![c] =
                       IF fault THEN Fail(c, StoreUnavailable)
                       ELSE [call[c] EXCEPT !.pc = "replace",
                               !.existing = IF call[c].id \in DOMAIN table
                                            THEN table[call[c].id] ELSE NoEntity]]
         /\ faults' = IF fault THEN faults + 1 ELSE faults
    /\ UNCHANGED <<table, notified, ops, startup, notification, home>>

\* updateOrder: table.getEntity answers, with the entity or with not found.
UpdateGet(c) ==
    /\ call[c].op \in UpdateOps /\ call[c].pc = "get"
    /\ \E fault \in FaultChoices :
         /\ call' = [call EXCEPT ![c] =
                       IF fault THEN Fail(c, StoreUnavailable)
                       ELSE IF call[c].id \notin DOMAIN table THEN Fail(c, ResourceNotFound)
                       ELSE [call[c] EXCEPT !.pc = "replace",
                               !.existing = table[call[c].id]]]
         /\ faults' = IF fault THEN faults + 1 ELSE faults
    /\ UNCHANGED <<table, notified, ops, startup, notification, home>>

\* updateOrder: the table service applies table.updateEntity(updated, "Replace"),
\* which needs the row to exist.
UpdateReplace(c) ==
    /\ call[c].op \in UpdateOps /\ call[c].pc = "replace"
    /\ \E fault \in FaultChoices :
         LET error == IF fault THEN StoreUnavailable
                      ELSE IF call[c].id \notin DOMAIN table THEN ResourceNotFound
                      ELSE ""
         IN /\ table' = IF error = ""
                        THEN Put(table, call[c].id, Merge(call[c].data, call[c].existing))
                        ELSE table
            /\ call' = [call EXCEPT ![c].pc = "resume", ![c].err = error]
            /\ faults' = IF fault THEN faults + 1 ELSE faults
    /\ UNCHANGED <<notified, ops, startup, notification, home>>

\* ------------------------------------------------------------ card.action
\* The verb of an action: those of the new-order card, another one, none.
Verbs == {"order.accept", "order.cancel", "order.archive", Undefined}

\* data.orderId: the id of a stored order or of ORD-002, the empty string, a
\* number, or nothing.
OrderIds == {Str(id) : id \in IdParams} \cup {Str(<<>>), Num(7), UndefinedAmount}

\* ctx.activity.from?.name
Actors == {"Dana", Undefined}

\* The status with accept and cancel taken for each other.
NewStatusSwapped(verb) == IF verb = "order.accept" THEN "Cancelled" ELSE "Pending"

\* const newStatus = verb === "order.accept" ? "Pending" : "Cancelled"
NewStatus(verb) == IF verb = "order.accept" THEN "Pending" ELSE "Cancelled"

\* The header label of the confirmation card.
ConfirmedLabel(status) ==
    IF status = "Pending" THEN <<"Order Accepted">>
    ELSE IF status = "Cancelled" THEN <<"Order Cancelled">>
    ELSE <<"Order", status>>

\* buildConfirmedCard(order, actedBy) as the 200 value of the handler: the
\* header and the facts of the card.
buildConfirmedCard(order, actedBy) ==
    [NoResponse EXCEPT !.status = 200, !.type = "application/vnd.microsoft.card.adaptive",
       !.header = ConfirmedLabel(order.status), !.order = order, !.actedBy = actedBy]

\* The handler that checks the order id and not the verb.
CardActionAnyVerb(c) ==
    /\ Free(c)
    /\ \E v \in Verbs, oid \in OrderIds, from \in Actors :
         LET verb == Coalesce(v, "")
             orderId == IF oid.t = "str" THEN oid.s ELSE <<>>
             started == [IdleCall EXCEPT !.op = "action", !.verb = verb, !.orderId = oid,
                           !.pre = table]
         IN call' = [call EXCEPT ![c] =
                       IF orderId = <<>>
                       THEN [started EXCEPT !.pc = "done",
                               !.resp = ErrorValue(400, "BadRequest", "Unknown action")]
                       ELSE [started EXCEPT !.pc = "get", !.id = orderId,
                               !.data = StatusPatch(NewStatus(verb)),
                               !.actedBy = Coalesce(from, "Unknown")]]
    /\ ops' = ops + 1
    /\ UNCHANGED <<table, notified, faults, startup, notification, home>>

\* The handler up to updateOrder's first await: an action without a non-empty
\* string orderId or with another verb is answered 400 at once; otherwise the
\* entity is requested.
CardAction(c) ==
    /\ Free(c)
    /\ \E v \in Verbs, oid \in OrderIds, from \in Actors :
         LET verb == Coalesce(v, "")
             orderId == IF oid.t = "str" THEN oid.s ELSE <<>>
             started == [IdleCall EXCEPT !.op = "action", !.verb = verb, !.orderId = oid,
                           !.pre = table]
         IN call' = [call EXCEPT ![c] =
                       IF orderId = <<>> \/ (verb # "order.accept" /\ verb # "order.cancel")
                       THEN [started EXCEPT !.pc = "done",
                               !.resp = ErrorValue(400, "BadRequest", "Unknown action")]
                       ELSE [started EXCEPT !.pc = "get", !.id = orderId,
                               !.data = StatusPatch(NewStatus(verb)),
                               !.actedBy = Coalesce(from, "Unknown")]]
    /\ ops' = ops + 1
    /\ UNCHANGED <<table, notified, faults, startup, notification, home>>

\* The handler that writes the event to the live streams before it looks at
\* the outcome of updateOrder.
UpdateResumeWritesFirst(c) ==
    /\ call[c].op \in UpdateOps /\ call[c].pc = "resume"
    /\ LET u == Merge(call[c].data, call[c].existing)
           order == Order(call[c].id, u.customer, Number(u.amount), u.status, u.date)
       IN /\ call' = [call EXCEPT ![c] =
                        IF call[c].err # "" THEN Fail(c, call[c].err)
                        ELSE [call[c] EXCEPT !.pc = "done",
                                !.ret = Returned(order, 0, <<>>),
                                !.resp = IF call[c].op = "action"
                                         THEN buildConfirmedCard(order, call[c].actedBy)
                                         ELSE Json(200, Returned(order, 0, <<>>))]]
          /\ sessions' = IF call[c].op = "action"
                         THEN WriteAll(UpdatedPayload(order))
                         ELSE sessions
    /\ UNCHANGED <<table, notified, faults, ops, startup, sseClients, registry, fanout, home>>

\* updateOrder returns the merged order. PUT /api/orders/:id answers
\* res.json(updated); card.action builds the confirmation card, writes the
\* update to the live streams and returns the card. A rejected write goes to
\* the handler's catch.
UpdateResume(c) ==
    /\ call[c].op \in UpdateOps /\ call[c].pc = "resume"
    /\ LET u == Merge(call[c].data, call[c].existing)
           order == Order(call[c].id, u.customer, Number(u.amount), u.status, u.date)
       IN /\ call' = [call EXCEPT ![c] =
                        IF call[c].err # "" THEN Fail(c, call[c].err)
                        ELSE [call[c] EXCEPT !.pc = "done",
                                !.ret = Returned(order, 0, <<>>),
                                !.resp = IF call[c].op = "action"
                                         THEN buildConfirmedCard(order, call[c].actedBy)
                                         ELSE Json(200, Returned(order, 0, <<>>))]]
          /\ sessions' = IF call[c].op = "action" /\ call[c].err = ""
                         THEN WriteAll(UpdatedPayload(order))
                         ELSE sessions
    /\ UNCHANGED <<table, notified, faults, ops, startup, sseClients, registry, fanout, home>>

\* ---------------------------------------------- PUT /api/customers/:name
URIError == "URIError: URI malformed"

\* The :name of a request path as the router hands it over.
NameParams == {"Acme", "Bolt", "A%20B", "100%"}

NewNames == {"Acme", "Bolt"}

\* Whether decodeURIComponent(name) throws: a % that no two hex digits follow.
Malformed(name) == name = "100%"

\* decodeURIComponent(name) of a name it accepts: escapes become characters.
decodeURIComponent(name) == IF name = "A%20B" THEN "A B" ELSE name

\* The handler up to renameCustomer's first await: the name is decoded and the
\* orders requested; a name that does not decode goes to the catch.
PutCustomer(c) ==
    /\ Free(c)
    /\ \E name \in NameParams, newName \in NewNames :
         call' = [call EXCEPT ![c] =
                    IF Malformed(name)
                    THEN [IdleCall EXCEPT !.op = "rename", !.pc = "done",
                            !.ret = Thrown(URIError), !.resp = ErrorJson(URIError),
                            !.pre = table]
                    ELSE [IdleCall EXCEPT !.op = "rename", !.pc = "scan",
                            !.oldName = decodeURIComponent(name), !.newName = newName,
                            !.pre = table]]
    /\ ops' = ops + 1
    /\ UNCHANGED <<table, notified, faults, startup, notification, home>>

\* An entity as the repository reads it into an Order.
ToOrder(entity) ==
    Order(entity.rowKey, entity.customer, Number(entity.amount), entity.status, entity.date)

\* The loop that stops at the first entity it collects.
MatchingFirstOnly(entities, oldName) ==
    LET hit(e) == e.customer = oldName
        found == SelectSeq(entities, hit)
    IN [i \in 1..(IF found = <<>> THEN 0 ELSE 1) |-> ToOrder(found[i])]

\* toUpdate after the loop over the listed entities.
Matching(entities, oldName) ==
    LET hit(e) == e.customer = oldName
        found == SelectSeq(entities, hit)
    IN [i \in 1..Len(found) |-> ToOrder(found[i])]

\* renameCustomer: the scan answers; with nothing to update the count 0 is
\* returned, otherwise the first replace-write is sent.
RenameScan(c) ==
    /\ call[c].op = "rename" /\ call[c].pc = "scan"
    /\ \E fault \in FaultChoices :
         LET toUpdate == Matching(listEntities(table), call[c].oldName)
         IN /\ call' = [call EXCEPT ![c] =
                          IF fault THEN Fail(c, StoreUnavailable)
                          ELSE IF toUpdate = <<>>
                          THEN [call[c] EXCEPT !.pc = "done",
                                  !.ret = Returned(NoOrder, 0, <<>>),
                                  !.resp = Json(200, Returned(NoOrder, 0, <<>>))]
                          ELSE [call[c] EXCEPT !.pc = "write", !.toUpdate = toUpdate,
                                  !.i = 1]]
            /\ faults' = IF fault THEN faults + 1 ELSE faults
    /\ UNCHANGED <<table, notified, ops, startup, notification, home>>

\* The replace-write that undoes the earlier ones when it is rejected.
RenameWriteRollback(c) ==
    /\ call[c].op = "rename" /\ call[c].pc = "write"
    /\ \E fault \in FaultChoices :
         LET order == call[c].toUpdate[call[c].i]
             error == IF fault THEN StoreUnavailable
                      ELSE IF order.id \notin DOMAIN table THEN ResourceNotFound
                      ELSE ""
             count == Len(call[c].toUpdate)
         IN /\ table' = IF error = ""
                        THEN Put(table, order.id,
                                 Entity(call[c].newName, order.amount, order.status,
                                        order.date))
                        ELSE call[c].pre
            /\ call' = [call EXCEPT ![c] =
                          IF error # "" THEN Fail(c, error)
                          ELSE IF call[c].i = count
                          THEN [call[c] EXCEPT !.pc = "done",
                                  !.ret = Returned(NoOrder, count, <<>>),
                                  !.resp = Json(200, Returned(NoOrder, count, <<>>))]
                          ELSE [call[c] EXCEPT !.i = call[c].i + 1]]
            /\ faults' = IF fault THEN faults + 1 ELSE faults
    /\ UNCHANGED <<notified, ops, startup, notification, home>>

\* renameCustomer: the table service applies the replace-write of toUpdate[i];
\* after the last one the count is returned, a rejected one ends the call.
RenameWrite(c) ==
    /\ call[c].op = "rename" /\ call[c].pc = "write"
    /\ \E fault \in FaultChoices :
         LET order == call[c].toUpdate[call[c].i]
             error == IF fault THEN StoreUnavailable
                      ELSE IF order.id \notin DOMAIN table THEN ResourceNotFound
                      ELSE ""
             count == Len(call[c].toUpdate)
         IN /\ table' = IF error = ""
                        THEN Put(table, order.id,
                                 Entity(call[c].newName, order.amount, order.status,
                                        order.date))
                        ELSE table
            /\ call' = [call EXCEPT ![c] =
                          IF error # "" THEN Fail(c, error)
                          ELSE IF call[c].i = count
                          THEN [call[c] EXCEPT !.pc = "done",
                                  !.ret = Returned(NoOrder, count, <<>>),
                                  !.resp = Json(200, Returned(NoOrder, count, <<>>))]
                          ELSE [call[c] EXCEPT !.i = call[c].i + 1]]
            /\ faults' = IF fault THEN faults + 1 ELSE faults
    /\ UNCHANGED <<notified, ops, startup, notification, home>>

\* ------------------- GET /api/orders and GET /api/customers/:name/orders
\* orders.sort(compare) as a stable insertion sort: x goes after the last
\* element that does not sort after it.
RECURSIVE InsertOrdered(_, _)
InsertOrdered(sorted, x) ==
    IF sorted = <<>> THEN <<x>>
    ELSE LET last == sorted[Len(sorted)]
         IN IF localeCompare(x.id, last.id) <= 0 THEN Append(sorted, x)
            ELSE Append(InsertOrdered(SubSeq(sorted, 1, Len(sorted) - 1), x), last)

\* The insertion of the sort with the comparison the other way round.
RECURSIVE InsertAscending(_, _)
InsertAscending(sorted, x) ==
    IF sorted = <<>> THEN <<x>>
    ELSE LET last == sorted[Len(sorted)]
         IN IF localeCompare(last.id, x.id) <= 0 THEN Append(sorted, x)
            ELSE Append(InsertAscending(SubSeq(sorted, 1, Len(sorted) - 1), x), last)

\* orders.sort((a, b) => a.id.localeCompare(b.id)): ascending by id.
RECURSIVE SortAscending(_)
SortAscending(orders) ==
    IF orders = <<>> THEN <<>>
    ELSE InsertAscending(SortAscending(SubSeq(orders, 1, Len(orders) - 1)),
                         orders[Len(orders)])

\* orders.sort((a, b) => b.id.localeCompare(a.id))
RECURSIVE SortDescending(_)
SortDescending(orders) ==
    IF orders = <<>> THEN <<>>
    ELSE InsertOrdered(SortDescending(SubSeq(orders, 1, Len(orders) - 1)),
                       orders[Len(orders)])

\* What listOrders returns on the table content t.
ListedOrders(t) ==
    LET entities == listEntities(t)
    IN SortDescending([i \in 1..Len(entities) |-> ToOrder(entities[i])])

\* The handler of GET /api/orders up to listOrders' await.
GetOrders(c) ==
    /\ Free(c)
    /\ call' = [call EXCEPT ![c] =
                  [IdleCall EXCEPT !.op = "list", !.pc = "scan", !.pre = table]]
    /\ ops' = ops + 1
    /\ UNCHANGED <<table, notified, faults, startup, notification, home>>

\* The handler of GET /api/customers/:name/orders up to listOrders' await.
GetCustomerOrders(c) ==
    /\ Free(c)
    /\ \E name \in NameParams :
         call' = [call EXCEPT ![c] =
                    [IdleCall EXCEPT !.op = "listFor", !.pc = "scan", !.oldName = name,
                       !.pre = table]]
    /\ ops' = ops + 1
    /\ UNCHANGED <<table, notified, faults, startup, notification, home>>

\* listOrders: the scan answers and the sorted orders are returned; the handler
\* answers them, or those of the customer. The name is decoded once per order
\* tested, so a malformed name fails only when there is an order to test.
ListScan(c) ==
    /\ call[c].op \in {"list", "listFor"} /\ call[c].pc = "scan"
    /\ \E fault \in FaultChoices :
         LET orders == ListedOrders(table)
             mine(o) == o.customer = decodeURIComponent(call[c].oldName)
             answer == IF call[c].op = "list" THEN orders ELSE SelectSeq(orders, mine)
         IN /\ call' = [call EXCEPT ![c] =
                          IF fault THEN Fail(c, StoreUnavailable)
                          ELSE IF /\ call[c].op = "listFor"
                                  /\ orders # <<>>
                                  /\ Malformed(call[c].oldName)
                          THEN [call[c] EXCEPT !.pc = "done",
                                  !.ret = Returned(NoOrder, 0, orders),
                                  !.resp = ErrorJson(URIError)]
                          ELSE [call[c] EXCEPT !.pc = "done",
                                  !.ret = Returned(NoOrder, 0, orders),
                                  !.resp = Json(200, Returned(NoOrder, 0, answer))]]
            /\ faults' = IF fault THEN faults + 1 ELSE faults
    /\ UNCHANGED <<table, notified, ops, startup, notification, home>>

\* ------------------------------------------------------------ seedIfEmpty
CUSTOMERS ==
    <<"Contoso Ltd.", "Fabrikam Inc.", "Northwind Traders", "Adventure Works",
      "Tailspin Toys", "Woodgrove Bank", "Proseware Inc.", "Lucerne Publishing",
      "Humongous Insurance", "Wide World Importers", "Fourth Coffee",
      "Alpine Ski House", "Coho Winery", "Relecloud", "Trey Research">>

Boots == 1..MaxBoots

\* The runs of Math.random() a start can draw: run r decides every random
\* field of the generated orders.
RandomRuns == 0..(MaxRandomRuns - 1)

IdleBoot == [pc |-> "idle", sawEmpty |-> FALSE, run |-> 0, err |-> ""]

\* The generation loop that stops one short: i < count.
generateOrdersExclusive(count, r) ==
    [k \in {FormatId(i) : i \in 1..(count - 1)} |->
        LET i == parseInt(MatchOrd(k))
        IN Entity(CUSTOMERS[((i * (r + 1)) % Len(CUSTOMERS)) + 1],
                  Num(100 + ((i * (r + 7)) % 9900)),
                  STATUSES[((i + r) % Len(STATUSES)) + 1],
                  IF (i + r) % 2 = 0 THEN "2026-02-24" ELSE "2025-08-01")]

\* generateOrders(count) under the random run r: row key -> entity.
generateOrders(count, r) ==
    [k \in {FormatId(i) : i \in 1..count} |->
        LET i == parseInt(MatchOrd(k))
        IN Entity(CUSTOMERS[((i * (r + 1)) % Len(CUSTOMERS)) + 1],
                  Num(100 + ((i * (r + 7)) % 9900)),
                  STATUSES[((i + r) % Len(STATUSES)) + 1],
                  IF (i + r) % 2 = 0 THEN "2026-02-24" ELSE "2025-08-01")]

\* The server starts: seedIfEmpty is called and the table creation is sent.
SeedStart(b) ==
    /\ boot[b].pc = "idle"
    /\ boot' = [boot EXCEPT ![b].pc = "createTable"]
    /\ UNCHANGED <<table, call, notified, faults, ops, created, notification, home>>

\* service.createTable(TABLE_NAME).catch(() => {}): whatever goes wrong is
\* taken for "already exists".
SeedCreateTable(b) ==
    /\ boot[b].pc = "createTable"
    /\ \E fault \in FaultChoices :
         /\ created' = IF fault THEN created ELSE TRUE
         /\ faults' = IF fault THEN faults + 1 ELSE faults
    /\ boot' = [boot EXCEPT ![b].pc = "first"]
    /\ UNCHANGED <<table, call, notified, ops, notification, home>>

\* iter.next() answers: a table with a row ends the call; an empty one has the
\* 100 orders generated and the transaction sent.
SeedFirst(b) ==
    /\ boot[b].pc = "first"
    /\ \E fault \in FaultChoices, r \in RandomRuns :
         /\ boot' = [boot EXCEPT ![b] =
                       IF fault THEN [@ EXCEPT !.pc = "failed", !.err = StoreUnavailable]
                       ELSE IF ~created
                       THEN [@ EXCEPT !.pc = "failed", !.err = ResourceNotFound]
                       ELSE IF DOMAIN table # {} THEN [@ EXCEPT !.pc = "done"]
                       ELSE [@ EXCEPT !.pc = "submit", !.sawEmpty = TRUE, !.run = r]]
         /\ faults' = IF fault THEN faults + 1 ELSE faults
    /\ UNCHANGED <<table, call, notified, ops, created, notification, home>>

\* The table service applies table.submitTransaction: every createEntity of
\* the batch or, when one row key is already stored, none.
SeedSubmit(b) ==
    /\ boot[b].pc = "submit"
    /\ \E fault \in FaultChoices :
         LET orders == generateOrders(SeedCount, boot[b].run)
             error == IF fault THEN StoreUnavailable
                      ELSE IF DOMAIN orders \cap DOMAIN table # {} THEN EntityAlreadyExists
                      ELSE ""
         IN /\ table' = IF error = ""
                        THEN [k \in DOMAIN table \cup DOMAIN orders |->
                                IF k \in DOMAIN orders THEN orders[k] ELSE table[k]]
                        ELSE table
            /\ boot' = [boot EXCEPT ![b].pc = IF error = "" THEN "done" ELSE "failed",
                                    ![b].err = error]
            /\ faults' = IF fault THEN faults + 1 ELSE faults
    /\ UNCHANGED <<call, notified, ops, created, notification, home>>

\* ------------------------------------------- install.add / install.remove
\* ctx.activity.serviceUrl of an install event, when it has one.
EventServiceUrls == ServiceUrls \cup {Undefined}

\* The install.add handler up to saveConversation's await: the upsert is sent.
InstallAdd(c) ==
    /\ Free(c)
    /\ \E conv \in ConversationIds, url \in EventServiceUrls :
         /\ call' = [call EXCEPT ![c] =
                       [IdleCall EXCEPT !.op = "installAdd", !.pc = "upsert", !.conv = conv,
                          !.serviceUrl = Coalesce(url, ""), !.preSubs = subs]]
         /\ installed' = installed \cup {conv}
    /\ ops' = ops + 1
    /\ UNCHANGED <<table, notified, faults, startup, live, subs, fanout, home>>

\* saveConversation: the table service applies client.upsertEntity(..., "Replace");
\* a rejection leaves the handler through its await.
SaveUpsert(c) ==
    /\ call[c].op = "installAdd" /\ call[c].pc = "upsert"
    /\ \E fault \in FaultChoices :
         /\ subs' = IF fault THEN subs
                    ELSE Put(subs, SubRowKey(call[c].conv),
                             Registration(call[c].conv, call[c].serviceUrl))
         /\ call' = [call EXCEPT ![c].pc = "done",
                       ![c].ret = IF fault THEN Thrown(StoreUnavailable)
                                  ELSE Returned(NoOrder, 0, <<>>)]
         /\ faults' = IF fault THEN faults + 1 ELSE faults
    /\ UNCHANGED <<table, notified, ops, startup, live, installed, fanout, home>>

\* The install.remove handler up to removeConversation's await: the delete is sent.
InstallRemove(c) ==
    /\ Free(c)
    /\ \E conv \in ConversationIds :
         /\ call' = [call EXCEPT ![c] =
                       [IdleCall EXCEPT !.op = "installRemove", !.pc = "delete",
                          !.conv = conv, !.preSubs = subs]]
         /\ installed' = installed \ {conv}
    /\ ops' = ops + 1
    /\ UNCHANGED <<table, notified, faults, startup, live, subs, fanout, home>>

\* removeConversation: the table service applies client.deleteEntity; the
\* .catch(() => {}) takes every rejection, a missing row or a failing store,
\* for "already gone".
RemoveDelete(c) ==
    /\ call[c].op = "installRemove" /\ call[c].pc = "delete"
    /\ \E fault \in FaultChoices :
         /\ subs' = IF fault THEN subs ELSE Remove(subs, SubRowKey(call[c].conv))
         /\ call' = [call EXCEPT ![c].pc = "done", ![c].ret = Returned(NoOrder, 0, <<>>)]
         /\ faults' = IF fault THEN faults + 1 ELSE faults
    /\ UNCHANGED <<table, notified, ops, startup, live, installed, fanout, home>>

\* ------------------------------------------------- GET /api/orders/events
\* The handler: the headers are flushed, the response joins sseClients and
\* the close listener is registered.
Connect(s) ==
    /\ sessions[s].state = "none"
    /\ sessions' = [sessions EXCEPT ![s].state = "open"]
    /\ sseClients' = sseClients \cup {s}
    /\ UNCHANGED <<table, call, notified, faults, ops, startup, registry, fanout, home>>

\* The connection of a stream is lost; the request's close event is still to
\* be emitted.
Destroy(s) ==
    /\ sessions[s].state = "open"
    /\ sessions' = [sessions EXCEPT ![s].state = "destroyed"]
    /\ UNCHANGED <<table, call, notified, faults, ops, startup, sseClients, registry, fanout, home>>

\* The listener that empties the set.
CloseClears(s) ==
    /\ sessions[s].state = "destroyed"
    /\ sessions' = [sessions EXCEPT ![s].state = "closed"]
    /\ sseClients' = {}
    /\ UNCHANGED <<table, call, notified, faults, ops, startup, registry, fanout, home>>

\* req.on("close", () => sseClients.delete(res))
Close(s) ==
    /\ sessions[s].state = "destroyed"
    /\ sessions' = [sessions EXCEPT ![s].state = "closed"]
    /\ sseClients' = sseClients \ {s}
    /\ UNCHANGED <<table, call, notified, faults, ops, startup, registry, fanout, home>>

\* The response of an open stream is ended (res.end()) before its request
\* closes: writableEnded turns true.
End(s) ==
    /\ sessions[s].state = "open" /\ ~sessions[s].ended
    /\ sessions' = [sessions EXCEPT ![s].ended = TRUE]
    /\ UNCHANGED <<table, call, notified, faults, ops, startup, sseClients, registry, fanout, home>>

\* ------------------------------------------- broadcastNewOrder, the cards
DeliveryFates == {"delivered", "failed"}

\* The loop that waits for each delivery and gives up at the first that fails.
AttemptedUntilFailure(ids, fate) ==
    LET failures == {i \in 1..Len(ids) : fate[i] = "failed"}
        last == IF failures = {} THEN Len(ids)
                ELSE CHOOSE i \in failures : \A j \in failures : i <= j
    IN SubSeq(ids, 1, last)

\* for (const conversationId of conversationIds) app.send(...).catch(...): the
\* conversations app.send is called for, whatever becomes of the deliveries.
Attempted(ids, fate) == ids

\* listConversations answers: a rejection is logged and ends the broadcast;
\* otherwise app.send is called for the conversations, each with its own catch.
NotifyList(n) ==
    /\ n \in 1..Len(fanout) /\ fanout[n].pc = "list"
    /\ \E fault \in BOOLEAN :
         LET ids == listConversations(subs)
         IN \E fate \in [1..Len(ids) -> DeliveryFates] :
              LET attempts == Attempted(ids, fate)
              IN fanout' = [fanout EXCEPT ![n] =
                    IF fault
                    THEN [@ EXCEPT !.pc = "done",
                            !.errors = <<[what |-> "list", conversationId |-> <<>>]>>]
                    ELSE [@ EXCEPT !.pc = IF attempts = <<>> THEN "done" ELSE "sending",
                            !.listed = ids, !.attempts = attempts, !.fate = fate,
                            !.settled = [i \in 1..Len(attempts) |-> "pending"]]]
    /\ UNCHANGED <<table, call, notified, faults, ops, startup, live, registry, home>>

\* The catch that sends the card again when a delivery fails.
DeliverySettleRetry(n, i) ==
    /\ n \in 1..Len(fanout) /\ fanout[n].pc = "sending"
    /\ i \in 1..Len(fanout[n].attempts) /\ fanout[n].settled[i] = "pending"
    /\ LET f == fanout[n]
           failed == f.fate[i] = "failed"
           settled == [f.settled EXCEPT ![i] = f.fate[i]]
       IN fanout' = [fanout EXCEPT ![n] =
             IF failed
             THEN [f EXCEPT !.settled = Append(settled, "pending"),
                     !.attempts = Append(f.attempts, f.attempts[i]),
                     !.fate = Append(f.fate, "delivered"),
                     !.errors = Append(f.errors, [what |-> "deliver",
                                                  conversationId |-> f.attempts[i]])]
             ELSE [f EXCEPT !.settled = settled,
                     !.pc = IF \A j \in DOMAIN settled : settled[j] # "pending"
                            THEN "done" ELSE "sending"]]
    /\ UNCHANGED <<table, call, notified, faults, ops, startup, live, registry, home>>

\* The promise of one app.send settles: a rejection is logged by its catch and
\* nothing else follows from it.
DeliverySettle(n, i) ==
    /\ n \in 1..Len(fanout) /\ fanout[n].pc = "sending"
    /\ i \in 1..Len(fanout[n].attempts) /\ fanout[n].settled[i] = "pending"
    /\ LET f == fanout[n]
           failed == f.fate[i] = "failed"
           settled == [f.settled EXCEPT ![i] = f.fate[i]]
       IN fanout' = [fanout EXCEPT ![n] =
             [f EXCEPT !.settled = settled,
                !.errors = IF failed
                           THEN Append(f.errors, [what |-> "deliver",
                                                  conversationId |-> f.attempts[i]])
                           ELSE f.errors,
                !.pc = IF \A j \in DOMAIN settled : settled[j] # "pending"
                       THEN "done" ELSE "sending"]]
    /\ UNCHANGED <<table, call, notified, faults, ops, startup, live, registry, home>>

\* ------------------------------------------------------------ Home view
\* The tab's state: orders is the React state of that name; heard is what
\* onmessage was handed so far; answered counts the POST responses that
\* handleCreate has taken; loaded tells whether the first fetch has resolved.
NoHome == [orders |-> <<>>, heard |-> <<>>, answered |-> 0, loaded |-> FALSE]

\* The stream of the view's EventSource.
HomeStream == 1

\* The value res.json() yields for a body written by res.json(order), and
\* JSON.parse for the data of a new-order event: the order itself.
Fetched(order) == [type |-> Undefined, order |-> Stringify(order)]

\* value.id for a parsed value: an order has its id; the object
\* { type, order } has no property id.
IdOf(value) == IF value.type = Undefined THEN value.order.id ELSE <<Undefined>>

\* The updater that appends whatever it is handed.
AppendAlways(prev, order) == Append(prev, order)

\* prev.some((o) => o.id === order.id) ? prev : [...prev, order]
AppendIfNew(prev, order) ==
    IF \E i \in 1..Len(prev) : IdOf(prev[i]) = IdOf(order) THEN prev
    ELSE Append(prev, order)

\* The first fetch resolves: setOrders(data).
HomeLoaded(c) ==
    /\ call[c].op = "list" /\ call[c].pc = "done" /\ call[c].resp.status = 200
    /\ ~home.loaded
    /\ home' = [home EXCEPT
                  !.orders = [i \in 1..Len(call[c].resp.list) |-> Fetched(call[c].resp.list[i])],
                  !.loaded = TRUE]
    /\ UNCHANGED <<table, call, notified, faults, ops, startup, notification>>

\* handleCreate after its awaits: the 201 response of the latest POST is
\* parsed and the created order is added to the list.
HomeCreated(c) ==
    /\ call[c].op = "create" /\ call[c].pc = "done" /\ call[c].resp.status = 201
    /\ home.answered < Len(notified)
    /\ home' = [home EXCEPT
                  !.orders = AppendIfNew(@, Fetched(call[c].resp.order)),
                  !.answered = Len(notified)]
    /\ UNCHANGED <<table, call, notified, faults, ops, startup, notification>>

\* es.onmessage: an event that was written to the view's stream while it was
\* open arrives, possibly once more, and is parsed and added to the list.
HomeMessage ==
    /\ Len(home.heard) < MaxHeard
    /\ \E i \in 1..Len(sessions[HomeStream].wrote) :
         LET e == sessions[HomeStream].wrote[i]
         IN /\ e.delivered
            /\ home' = [home EXCEPT
                          !.orders = AppendIfNew(@, e.payload),
                          !.heard = Append(@, e.payload)]
    /\ UNCHANGED <<table, call, notified, faults, ops, startup, notification>>

\* --------------------------------------------------------- specifications
InitCalls ==
    /\ call = [c \in Calls |-> IdleCall]
    /\ notified = <<>>
    /\ fanout = <<>>
    /\ faults = 0
    /\ ops = 0
    /\ home = NoHome

\* No event stream has connected and no conversation has installed the bot.
Unobserved ==
    /\ sseClients = {}
    /\ sessions = [s \in Sessions |-> NoSession]
    /\ subs = EmptySubs
    /\ installed = {}

\* The server is up: seedIfEmpty has run and the table exists.
Started ==
    /\ created = TRUE
    /\ boot = [b \in Boots |-> [IdleBoot EXCEPT !.pc = "done"]]

\* Serialized creation on an empty table: one createOrder at a time.
InitEmpty == table = EmptyTable /\ InitCalls /\ Started /\ Unobserved

NextCreate ==
    \/ ops < MaxCreates /\ PostOrders(1)
    \/ CreateScan(1)
    \/ CreateInsert(1)
    \/ CreateResume(1)

SpecCreate == InitEmpty /\ [][NextCreate]_vars

\* ---------------------------------------------------------------- requests
Step(c) ==
    \/ CreateScan(c)
    \/ CreateInsert(c)
    \/ CreateResume(c)
    \/ UpdateGet(c)
    \/ UpdateReplace(c)
    \/ UpdateResume(c)
    \/ RenameScan(c)
    \/ RenameWrite(c)
    \/ ListScan(c)

\* The table when the server starts to take requests: what earlier runs left
\* under the ids the program assigns.
InitCustomers == {"Acme", "Bolt"}

InitEntities == {Entity(cu, Num(10), "Submitted", "2026-02-24") : cu \in InitCustomers}

TablesOver(keys) ==
    UNION {[ks -> InitEntities] : ks \in {x \in SUBSET keys : Cardinality(x) <= MaxInitRows}}

Init == table \in TablesOver({FormatId(1), FormatId(2)}) /\ InitCalls /\ Started /\ Unobserved

\* Requests interleave at every await.
Next ==
    \E c \in Calls :
        \/ ops < MaxOps /\ PostOrders(c)
        \/ ops < MaxOps /\ PutOrder(c)
        \/ ops < MaxOps /\ PutCustomer(c)
        \/ ops < MaxOps /\ GetOrders(c)
        \/ ops < MaxOps /\ GetCustomerOrders(c)
        \/ Step(c)

Spec == Init /\ [][Next]_vars

\* Requests served one at a time: each completes before the next starts.
NextSerial ==
    \/ ops < MaxOps /\ Quiet /\ PostOrders(1)
    \/ ops < MaxOps /\ Quiet /\ PutOrder(1)
    \/ ops < MaxOps /\ Quiet /\ PutCustomer(1)
    \/ ops < MaxOps /\ Quiet /\ GetOrders(1)
    \/ ops < MaxOps /\ Quiet /\ GetCustomerOrders(1)
    \/ Step(1)

SpecSerial == Init /\ [][NextSerial]_vars

\* Starts of the server against a storage account that holds no Orders table,
\* an empty one, or one with rows; two starts may overlap.
InitSeed ==
    /\ created \in BOOLEAN
    /\ table \in (IF created THEN TablesOver({FormatId(1), FormatId(2)}) ELSE {EmptyTable})
    /\ boot = [b \in Boots |-> IdleBoot]
    /\ InitCalls
    /\ Unobserved

NextSeed ==
    \E b \in Boots : SeedStart(b) \/ SeedCreateTable(b) \/ SeedFirst(b) \/ SeedSubmit(b)

SpecSeed == InitSeed /\ [][NextSeed]_vars

\* Any store content: row keys the program assigns, with gaps, without padding
\* and past three digits, and row keys of other writers that are no order ids.
KeyPool ==
    {FormatId(1), FormatId(2), FormatId(5), FormatId(999), FormatId(1000),
     OrdPrefix \o <<"7">>, OrdPrefix \o <<"1", "A">>, <<"X">> \o OrdPrefix \o <<"9">>}

InitStore == table \in TablesOver(KeyPool) /\ InitCalls /\ Started /\ Unobserved

\* createOrder, renameCustomer and listOrders on any store content, one call
\* at a time.
NextStore ==
    \/ ops < MaxStoreOps /\ Quiet /\ PostOrders(1)
    \/ ops < MaxStoreOps /\ Quiet /\ PutCustomer(1)
    \/ ops < MaxStoreOps /\ Quiet /\ GetOrders(1)
    \/ CreateScan(1)
    \/ CreateInsert(1)
    \/ CreateResume(1)
    \/ RenameScan(1)
    \/ RenameWrite(1)
    \/ ListScan(1)

SpecStore == InitStore /\ [][NextStore]_vars

\* The bot's handlers, one event at a time, while streams are connected:
\* card actions and PUT requests on the stored orders.
StreamStates ==
    {[NoSession EXCEPT !.state = st, !.ended = e] :
        st \in {"none", "open", "destroyed"}, e \in BOOLEAN}
      \ {[NoSession EXCEPT !.ended = TRUE]}

InitStreams ==
    /\ sessions \in [Sessions -> StreamStates]
    /\ sseClients = {s \in Sessions : sessions[s].state # "none"}

InitBot ==
    /\ table \in TablesOver({FormatId(1), FormatId(2)})
    /\ InitCalls /\ Started /\ InitStreams
    /\ subs = EmptySubs /\ installed = {}

NextBot ==
    \/ ops < MaxActions /\ Quiet /\ CardAction(1)
    \/ ops < MaxActions /\ Quiet /\ PutOrder(1)
    \/ UpdateGet(1)
    \/ UpdateReplace(1)
    \/ UpdateResume(1)

SpecBot == InitBot /\ [][NextBot]_vars

\* Orders created, updated over HTTP and acted on from a card, one request
\* at a time, while streams are connected.
NextMutations ==
    \/ ops < MaxActions /\ Quiet /\ PostOrders(1)
    \/ ops < MaxActions /\ Quiet /\ PutOrder(1)
    \/ ops < MaxActions /\ Quiet /\ CardAction(1)
    \/ CreateScan(1)
    \/ CreateInsert(1)
    \/ CreateResume(1)
    \/ UpdateGet(1)
    \/ UpdateReplace(1)
    \/ UpdateResume(1)
    \/ \E n \in 1..Len(fanout) : NotifyList(n)

SpecMutations == InitBot /\ [][NextMutations]_vars

\* Card actions, one at a time, on orders that are all Submitted and that
\* nothing else updates: up to MaxOps actions, from any conversation.
NextActions ==
    \/ ops < MaxOps /\ Quiet /\ CardAction(1)
    \/ UpdateGet(1)
    \/ UpdateReplace(1)
    \/ UpdateResume(1)

SpecActions == Init /\ [][NextActions]_vars

\* One tab shows the Home view: it opens its event stream and fetches the
\* orders; orders are created from the view and acted on from cards, one
\* request at a time, while the fetch is under way.
InitHome == table \in TablesOver({FormatId(1)}) /\ InitCalls /\ Started /\ Unobserved

\* The requests started so far besides the view's fetch.
HomeOps == ops - (IF call[2].op = "idle" THEN 0 ELSE 1)

NextHome ==
    \/ Connect(HomeStream)
    \/ call[2].op = "idle" /\ GetOrders(2)
    \/ ListScan(2)
    \/ HomeLoaded(2)
    \/ HomeOps < MaxHomeOps /\ Free(1) /\ PostOrders(1)
    \/ HomeOps < MaxHomeOps /\ Free(1) /\ CardAction(1)
    \/ CreateScan(1)
    \/ CreateInsert(1)
    \/ CreateResume(1)
    \/ UpdateGet(1)
    \/ UpdateReplace(1)
    \/ UpdateResume(1)
    \/ \E n \in 1..Len(fanout) : NotifyList(n)
    \/ HomeCreated(1)
    \/ HomeMessage

SpecHome == InitHome /\ [][NextHome]_vars

\* Two renames of customers, the second after the first has returned, on the
\* orders that earlier runs left.
NextRenames ==
    \/ call[1].op = "idle" /\ PutCustomer(1)
    \/ call[1].pc = "done" /\ call[2].op = "idle" /\ PutCustomer(2)
    \/ \E c \in Calls : RenameScan(c)
    \/ \E c \in Calls : RenameWrite(c)

SpecRenames == Init /\ [][NextRenames]_vars

\* Install events, one at a time, from an empty registry.
NextInstall ==
    \/ ops < MaxInstalls /\ Quiet /\ InstallAdd(1)
    \/ ops < MaxInstalls /\ Quiet /\ InstallRemove(1)
    \/ SaveUpsert(1)
    \/ RemoveDelete(1)

SpecInstall == InitEmpty /\ [][NextInstall]_vars

\* The registries that installs leave: up to MaxInitSubs conversations under
\* distinct row keys.
Registries ==
    {[k \in {SubRowKey(id) : id \in ids} |->
         Registration(CHOOSE id \in ids : SubRowKey(id) = k, "https://smba.example/amer")] :
       ids \in {x \in SUBSET ConversationIds :
                  /\ Cardinality(x) <= MaxInitSubs
                  /\ \A a, b \in x : SubRowKey(a) = SubRowKey(b) => a = b}}

\* Orders created one request at a time while event streams connect and
\* disconnect and the cards of earlier orders are still being delivered.
InitFanout ==
    /\ table = EmptyTable
    /\ InitCalls /\ Started
    /\ sseClients = {} /\ sessions = [s \in Sessions |-> NoSession]
    /\ subs \in Registries
    /\ installed = {subs[k].conversationId : k \in DOMAIN subs}

NextFanout ==
    \/ ops < MaxPosts /\ Quiet /\ PostOrders(1)
    \/ CreateScan(1)
    \/ CreateInsert(1)
    \/ CreateResume(1)
    \/ \E s \in Sessions : Connect(s)
    \/ \E s \in Sessions : Destroy(s)
    \/ \E s \in Sessions : Close(s)
    \/ \E s \in Sessions : End(s)
    \/ \E n \in 1..Len(fanout) : NotifyList(n)
    \/ \E n \in 1..Len(fanout) : \E i \in 1..Len(fanout[n].attempts) : DeliverySettle(n, i)

SpecFanout == InitFanout /\ [][NextFanout]_vars

\* Orders created one request at a time and their cards, with no event
\* stream connected.
NextCards ==
    \/ ops < MaxPosts /\ Quiet /\ PostOrders(1)
    \/ CreateScan(1)
    \/ CreateInsert(1)
    \/ CreateResume(1)
    \/ \E n \in 1..Len(fanout) : NotifyList(n)
    \/ \E n \in 1..Len(fanout) : \E i \in 1..Len(fanout[n].attempts) : DeliverySettle(n, i)

SpecCards == InitFanout /\ [][NextCards]_vars

\* Orders created one request at a time while event streams connect and
\* disconnect, with no conversation registered.
NextStreaming ==
    \/ ops < MaxPosts /\ Quiet /\ PostOrders(1)
    \/ CreateScan(1)
    \/ CreateInsert(1)
    \/ CreateResume(1)
    \/ \E s \in Sessions : Connect(s)
    \/ \E s \in Sessions : Destroy(s)
    \/ \E s \in Sessions : Close(s)
    \/ \E s \in Sessions : End(s)
    \/ \E n \in 1..Len(fanout) : NotifyList(n)

SpecStreaming == InitEmpty /\ [][NextStreaming]_vars

\* ------------------------------------------------------------------ claims
\* What the claims say, stated without the operators the code is modelled by.
Digit(n) == Digits[(n % 10) + 1]

\* "ORD-" and n written with at least three digits, for n below 10000.
ExpectedId(n) ==
    OrdPrefix \o
      (IF n < 1000 THEN <<Digit(n \div 100), Digit(n \div 10), Digit(n)>>
       ELSE <<Digit(n \div 1000), Digit(n \div 100), Digit(n \div 10), Digit(n)>>)

\* A row key of the form ORD-<digits>.
IsOrderKey(k) ==
    /\ Len(k) >= 5
    /\ k[1] = "O" /\ k[2] = "R" /\ k[3] = "D" /\ k[4] = "-"
    /\ \A i \in 5..Len(k) : k[i] \in {Digits[d] : d \in 1..10}

\* The number the digits of an order key spell.
SuffixNumber(k) ==
    LET value[i \in 4..Len(k)] ==
            IF i = 4 THEN 0 ELSE 10 * value[i - 1] + DigitValue(k[i])
    IN value[Len(k)]

\* The largest numeric suffix among the order keys of t, 0 when there is none.
MaxSuffix(t) ==
    LET numbers == {SuffixNumber(k) : k \in {x \in DOMAIN t : IsOrderKey(x)}} \cup {0}
    IN CHOOSE m \in numbers : \A n \in numbers : n <= m

\* A call that ran to its end and returned.
Succeeded(c, op) ==
    call[c].op = op /\ call[c].pc = "done" /\ call[c].ret.kind = "ok"

\* C1: starting from an empty Orders table, after N createOrder calls run one
\* at a time (N counts the calls the store did not fail), the stored ids are
\* exactly ORD-001 .. ORD-00N: no gap, no duplicate.
C1_SerialCreateIds ==
    Quiet => DOMAIN table = {ExpectedId(i) : i \in 1..(ops - faults)}

C1_Witness ==
    /\ Quiet
    /\ ops = MaxCreates /\ faults = 0
    /\ Cardinality(DOMAIN table) = MaxCreates

\* C2: on any store content a createOrder that runs alone assigns
\* "ORD-" + (m+1) padded to 3 digits, m the largest suffix of the keys that
\* match ORD-<digits>; other keys are ignored, no gap is reused, and the new
\* suffix is above every existing one.
C2_IdIsMaxPlusOne ==
    (call[1].op = "create" /\ call[1].pc \in {"insert", "resume", "done"}
       /\ call[1].id # <<>>) =>
        LET before == call[1].pre
            id == call[1].id
        IN /\ id = ExpectedId(MaxSuffix(before) + 1)
           /\ id \notin DOMAIN before
           /\ \A k \in DOMAIN before : IsOrderKey(k) => SuffixNumber(k) < SuffixNumber(id)
           /\ Succeeded(1, "create") =>
                /\ call[1].ret.order.id = id
                /\ DOMAIN table = DOMAIN before \cup {id}
                /\ \A k \in DOMAIN before : table[k] = before[k]

\* A gap below the maximum and a key that is no order id, and the call done.
C2_Witness ==
    /\ Succeeded(1, "create")
    /\ DOMAIN call[1].pre = {FormatId(5), OrdPrefix \o <<"1", "A">>}
    /\ call[1].ret.order.id = ExpectedId(6)

\* Calls that raced for one id: the id is stored, at most one call has no
\* error, a refused call answers 500, and no order id is notified twice.
C3_RaceState ==
    /\ \A c \in Calls :
         (/\ call[c].op = "create" /\ call[c].pc \in {"resume", "done"}
          /\ call[c].id # <<>>
          /\ StoreUnavailable \notin {call[c].err, call[c].ret.error})
         => /\ call[c].id \in DOMAIN table
            /\ {call[c].err, call[c].ret.error} \subseteq {"", EntityAlreadyExists}
    /\ \A c1, c2 \in Calls :
         (/\ c1 # c2
          /\ call[c1].op = "create" /\ call[c2].op = "create"
          /\ call[c1].pc \in {"resume", "done"} /\ call[c2].pc \in {"resume", "done"}
          /\ call[c1].id # <<>> /\ call[c1].id = call[c2].id)
         => \/ call[c1].err # "" \/ call[c1].ret.kind = "throw"
            \/ call[c2].err # "" \/ call[c2].ret.kind = "throw"
    /\ \A c \in Calls :
         (call[c].op = "create" /\ call[c].pc = "done"
            /\ call[c].ret.error = EntityAlreadyExists)
         => call[c].resp.status = 500 /\ call[c].resp.error = EntityAlreadyExists
    /\ \A i, j \in 1..Len(notified) : notified[i].id = notified[j].id => i = j
    /\ \A i \in 1..Len(notified) : notified[i].id \in DOMAIN table

\* A refused insert writes nothing and notifies nothing.
C3_RaceStep ==
    \A c \in Calls :
        (/\ call[c].op = "create" /\ call[c].pc = "insert"
         /\ call[c].id \in DOMAIN table
         /\ call'[c].pc = "resume")
        => table' = table /\ notified' = notified /\ call'[c].err # ""

\* C3: createOrder calls that all scan before any of them inserts compute the
\* same id; the id gets stored by one insert, at most one of the calls succeeds
\* and every other one is refused as a duplicate key: it leaves the stored
\* record as it is, its order is not notified and its POST answers 500. No
\* order id is notified twice.
C3_DuplicateKeyRace == []C3_RaceState /\ [][C3_RaceStep]_vars

\* Both calls done on the same id: one answered 201, one 500.
C3_Witness ==
    /\ faults = 0
    /\ call[1].op = "create" /\ call[2].op = "create"
    /\ call[1].pc = "done" /\ call[2].pc = "done"
    /\ call[1].id = call[2].id
    /\ call[1].resp.status = 201
    /\ call[2].resp.status = 500 /\ call[2].resp.error = EntityAlreadyExists
    /\ call[1].data # call[2].data
    /\ table[call[1].id] = call[1].data

\* C4: updateOrder(id, {}) on a stored id returns the stored id, customer,
\* amount, status and date, and leaves the stored record as it was.
C4_EmptyPatchIdentity ==
    (Succeeded(1, "update") /\ call[1].data = EmptyPatch) =>
        LET before == call[1].pre[call[1].id]
        IN /\ call[1].ret.order =
                Order(call[1].id, before.customer, before.amount, before.status, before.date)
           /\ table = call[1].pre

C4_Witness ==
    /\ Succeeded(1, "update") /\ call[1].data = EmptyPatch
    /\ call[1].pre[call[1].id].amount = Num(0)
    /\ call[1].resp.status = 200

\* C5: updateOrder(id, {status: S}) run alone changes the status of that
\* order and nothing else: not its customer, amount or date, and no field of
\* any other order.
C5_StatusPatchFrame ==
    \A st \in PatchStatuses :
        (Succeeded(1, "update") /\ call[1].data = StatusPatch(st)) =>
            LET id == call[1].id
                before == call[1].pre
            IN /\ DOMAIN table = DOMAIN before
               /\ table[id] = [before[id] EXCEPT !.status = st]
               /\ \A k \in DOMAIN before \ {id} : table[k] = before[k]
               /\ call[1].ret.order.status = st

C5_Witness ==
    /\ Succeeded(1, "update") /\ call[1].data = StatusPatch("Cancelled")
    /\ Cardinality(DOMAIN table) >= 2
    /\ call[1].pre[call[1].id].status = "Shipped"

\* C6: updateOrder on an id that is not stored fails, creates no record and
\* leaves the store unchanged; PUT /api/orders/:id answers 500 with {error}.
C6_UpdateMissingFails ==
    (call[1].op = "update" /\ call[1].id \notin DOMAIN call[1].pre) =>
        /\ table = call[1].pre
        /\ call[1].pc \in {"get", "done"}
        /\ call[1].pc = "done" =>
             /\ call[1].ret.kind = "throw"
             /\ call[1].resp.status = 500
             /\ call[1].resp.error = call[1].ret.error
             /\ call[1].resp.error # ""

C6_Witness ==
    /\ call[1].op = "update" /\ call[1].pc = "done"
    /\ call[1].id \notin DOMAIN table
    /\ call[1].resp.status = 500 /\ call[1].resp.error = ResourceNotFound
    /\ DOMAIN table # {}

\* The row keys of t whose customer is name.
OrdersOf(t, name) == {k \in DOMAIN t : t[k].customer = name}

\* C7 as stated: renameCustomer(old, new) returns the number of orders whose
\* customer was old before the call, and after the call no order has the
\* customer old, for every pair of names.
C7_RenameAsStated ==
    Succeeded(1, "rename") =>
        /\ call[1].ret.count = Cardinality(OrdersOf(call[1].pre, call[1].oldName))
        /\ OrdersOf(table, call[1].oldName) = {}

\* C7 amended: the count is the number of orders whose customer was old before
\* the call; after the call no order has the customer old when new differs
\* from old, and when new equals old those orders keep the name.
C7_RenameCountAndEffect ==
    Succeeded(1, "rename") =>
        LET before == call[1].pre
            old == call[1].oldName
            new == call[1].newName
        IN /\ call[1].ret.count = Cardinality(OrdersOf(before, old))
           /\ call[1].resp.status = 200 /\ call[1].resp.count = call[1].ret.count
           /\ DOMAIN table = DOMAIN before
           /\ \A k \in DOMAIN before :
                table[k] = IF before[k].customer = old
                           THEN [before[k] EXCEPT !.customer = new]
                           ELSE before[k]
           /\ new # old => OrdersOf(table, old) = {}
           /\ new = old => OrdersOf(table, old) = OrdersOf(before, old)

C7_Witness ==
    /\ Succeeded(1, "rename")
    /\ call[1].oldName # call[1].newName
    /\ call[1].ret.count = 2
    /\ OrdersOf(table, call[1].newName) = DOMAIN table

\* The orders of t with the customer name, in the order the scan lists them.
ListedOrdersOf(t, name) ==
    LET hit(k) == t[k].customer = name
    IN SelectSeq(KeysInOrder(DOMAIN t), hit)

\* C8: when the replace-write of the k-th matching order fails, renameCustomer
\* fails with that error and returns no count; the k-1 orders written before
\* keep the new name, the k-th and the later ones keep the old name.
C8_RenamePartial ==
    (call[1].op = "rename" /\ call[1].pc = "done" /\ call[1].toUpdate # <<>>
       /\ call[1].ret.kind = "throw") =>
        LET before == call[1].pre
            keys == ListedOrdersOf(before, call[1].oldName)
            k == call[1].i
        IN /\ k \in 1..Len(keys)
           /\ DOMAIN table = DOMAIN before
           /\ \A j \in 1..Len(keys) :
                table[keys[j]] =
                    IF j < k THEN [before[keys[j]] EXCEPT !.customer = call[1].newName]
                    ELSE before[keys[j]]
           /\ \A x \in DOMAIN before :
                before[x].customer # call[1].oldName => table[x] = before[x]
           /\ call[1].ret.error = StoreUnavailable /\ call[1].ret.count = 0
           /\ call[1].resp.status = 500 /\ call[1].resp.error = call[1].ret.error

\* The second of two writes failed: one order renamed, one not.
C8_Witness ==
    /\ call[1].op = "rename" /\ call[1].pc = "done" /\ call[1].ret.kind = "throw"
    /\ call[1].i = 2 /\ Len(call[1].toUpdate) = 2
    /\ call[1].oldName # call[1].newName
    /\ Cardinality(OrdersOf(table, call[1].newName)) = 1
    /\ Cardinality(OrdersOf(table, call[1].oldName)) = 1

\* a sorts before b, or is b, code unit by code unit.
LexLessOrEqual(a, b) ==
    \E p \in 0..Len(a) :
        /\ p <= Len(b)
        /\ \A i \in 1..p : a[i] = b[i]
        /\ \/ p = Len(a)
           \/ p < Len(b) /\ CharCode(a[p + 1]) < CharCode(b[p + 1])

\* An id of the form ORD- and three digits.
IsThreeDigitId(k) == IsOrderKey(k) /\ Len(k) = 7

\* C9: listOrders returns every stored order exactly once, each id
\* lexicographically greater than or equal to the next; while every id has a
\* three-digit suffix that is descending numeric order.
C9_ListDescending ==
    Succeeded(1, "list") =>
        LET before == call[1].pre
            list == call[1].ret.list
        IN /\ Len(list) = Cardinality(DOMAIN before)
           /\ {list[i].id : i \in 1..Len(list)} = DOMAIN before
           /\ \A i \in 1..Len(list) :
                list[i] = Order(list[i].id, before[list[i].id].customer,
                                before[list[i].id].amount, before[list[i].id].status,
                                before[list[i].id].date)
           /\ \A i \in 1..(Len(list) - 1) : LexLessOrEqual(list[i + 1].id, list[i].id)
           /\ (\A k \in DOMAIN before : IsThreeDigitId(k)) =>
                \A i \in 1..(Len(list) - 1) :
                    SuffixNumber(list[i].id) > SuffixNumber(list[i + 1].id)
           /\ call[1].resp.status = 200 /\ call[1].resp.list = list

C9_Witness ==
    /\ Succeeded(1, "list")
    /\ Len(call[1].ret.list) = 2
    /\ call[1].ret.list[1].id = ExpectedId(5)
    /\ call[1].ret.list[2].id = ExpectedId(1)

\* The ids ORD-001 .. ORD-100.
SeededIds == {ExpectedId(i) : i \in 1..100}

\* A seedIfEmpty that found the table empty and returned left exactly the
\* seeded ids; one that returned without seeding had found a row.
C10_SeededState ==
    \A b \in Boots :
        /\ (boot[b].pc = "done" /\ boot[b].sawEmpty) => DOMAIN table = SeededIds
        /\ (boot[b].pc = "done" /\ ~boot[b].sawEmpty) => DOMAIN table # {}
        /\ boot[b].pc = "failed" => boot[b].err # ""

\* Seeding changes the table only from empty to the 100 seeded orders.
C10_SeedStep ==
    table' # table => (table = EmptyTable /\ DOMAIN table' = SeededIds)

\* C10: seedIfEmpty on an empty table inserts exactly the 100 orders ORD-001 ..
\* ORD-100, all or none of them; on a table that holds a record, also on a
\* second call after seeding, it writes nothing.
C10_SeedOnceAllOrNothing == []C10_SeededState /\ [][C10_SeedStep]_vars

\* One start seeded the empty table, a later one found it filled and left it.
C10_Witness ==
    /\ boot[1].pc = "done" /\ boot[1].sawEmpty
    /\ boot[2].pc = "done" /\ ~boot[2].sawEmpty
    /\ Cardinality(DOMAIN table) = SeedCount
    /\ faults = 0

\* C11: every order created through POST /api/orders is stored and returned
\* with status "Submitted" and the date of the request's instant, whatever
\* status or date the body carries, and the response is 201 with that order.
C11_PostSubmittedToday ==
    Succeeded(1, "create") =>
        LET id == call[1].id
            o == call[1].resp.order
        IN /\ call[1].resp.status = 201
           /\ o.id = id /\ o.customer = call[1].body.customer
           /\ o.status = "Submitted" /\ o.date = call[1].now.date
           /\ id \in DOMAIN table
           /\ table[id].status = "Submitted" /\ table[id].date = call[1].now.date
           /\ table[id].customer = call[1].body.customer

C11_Witness ==
    /\ Succeeded(1, "create")
    /\ call[1].body.status = "Delivered" /\ call[1].body.date = "1999-12-31"
    /\ call[1].resp.status = 201
    /\ table[call[1].id].status = "Submitted"

\* A card action with one of the two verbs of the card and a non-empty string
\* as its order id.
WellFormedAction(c) ==
    /\ call[c].op = "action"
    /\ call[c].verb \in {"order.accept", "order.cancel"}
    /\ call[c].orderId.t = "str" /\ call[c].orderId.s # <<>>

\* C12: a card action order.accept on a stored order sets its stored status
\* to Pending and returns 200 with a card whose header says accepted;
\* order.cancel sets Cancelled and the header says cancelled. Customer,
\* amount and date of the order and all other orders stay as they were. Only
\* a failing store makes it a 500, and then nothing is changed.
C12_AcceptCancel ==
    (WellFormedAction(1) /\ call[1].pc = "done" /\ call[1].id \in DOMAIN call[1].pre) =>
        LET id == call[1].id
            before == call[1].pre
            accept == call[1].verb = "order.accept"
            r == call[1].resp
        IN \/ /\ r.status = 200
              /\ r.type = "application/vnd.microsoft.card.adaptive"
              /\ r.header = IF accept THEN <<"Order Accepted">> ELSE <<"Order Cancelled">>
              /\ DOMAIN table = DOMAIN before
              /\ table[id].status = IF accept THEN "Pending" ELSE "Cancelled"
              /\ table[id].customer = before[id].customer
              /\ table[id].amount = before[id].amount
              /\ table[id].date = before[id].date
              /\ \A k \in DOMAIN before \ {id} : table[k] = before[k]
           \/ /\ r.status = 500 /\ r.error = StoreUnavailable
              /\ table = before

C12_Witness ==
    /\ WellFormedAction(1) /\ call[1].pc = "done"
    /\ call[1].verb = "order.cancel"
    /\ call[1].id \in DOMAIN call[1].pre
    /\ call[1].pre[call[1].id].status = "Submitted"
    /\ call[1].resp.status = 200
    /\ table[call[1].id].status = "Cancelled"

\* What has been handed to the write of any stream so far.
Written == [s \in Sessions |-> sessions[s].wrote]

\* A card action that is not well formed is answered 400 where it stands:
\* it has asked the store for nothing and the orders are as they were.
C13_RejectedState ==
    (call[1].op = "action" /\ ~WellFormedAction(1)) =>
        /\ call[1].pc = "done"
        /\ call[1].resp.status = 400
        /\ call[1].resp.type = "application/vnd.microsoft.error"
        /\ call[1].resp.code = "BadRequest"
        /\ call[1].ret = NoResult /\ call[1].existing = NoEntity
        /\ table = call[1].pre

\* The step that takes such an action touches no order and no stream, and no
\* later step belongs to it.
C13_RejectedStep ==
    /\ (call'[1] # call[1] /\ call'[1].op = "action" /\ ~WellFormedAction(1)')
          => (table' = table /\ Written' = Written /\ subs' = subs /\ faults' = faults)
    /\ (call[1].op = "action" /\ ~WellFormedAction(1) /\ call'[1] # call[1])
          => ops' = ops + 1

\* C13: a card action whose verb is neither order.accept nor order.cancel, or
\* whose payload has no non-empty string orderId, returns a 400 error value
\* and has no effect: no store read or write, no order changed, nothing
\* written to a live stream.
C13_BadActionRejected == []C13_RejectedState /\ [][C13_RejectedStep]_vars

C13_Witness ==
    /\ call[1].op = "action" /\ call[1].verb = "order.archive"
    /\ call[1].orderId.t = "str" /\ call[1].orderId.s \in DOMAIN table
    /\ call[1].resp.status = 400
    /\ \E s \in sseClients : sessions[s].state = "open" /\ ~sessions[s].ended

\* How many entries of the sequence q equal x.
Occurrences(q, x) == Cardinality({i \in 1..Len(q) : q[i] = x})

\* The conversations that hold a registration.
Registered == {subs[k].conversationId : k \in DOMAIN subs}

\* Whether the listing of conversations of the n-th broadcast was answered.
Listed(n) ==
    /\ fanout[n].pc \in {"sending", "done"}
    /\ \A i \in 1..Len(fanout[n].errors) : fanout[n].errors[i].what # "list"

\* C14: for each created order every conversation that listConversations
\* returned gets one delivery attempt, whether or not the delivery to another
\* conversation fails; each failed delivery is logged by itself.
C14_EveryConversationAttempted ==
    \A n \in 1..Len(fanout) :
        Listed(n) =>
            /\ {fanout[n].listed[i] : i \in 1..Len(fanout[n].listed)} = Registered
            /\ \A id \in Registered : Occurrences(fanout[n].attempts, id) = 1
            /\ \A id \in Registered :
                 Occurrences(fanout[n].errors, [what |-> "deliver", conversationId |-> id])
                   = Cardinality({i \in 1..Len(fanout[n].attempts) :
                                     /\ fanout[n].attempts[i] = id
                                     /\ fanout[n].settled[i] = "failed"})

C14_Witness ==
    \E n \in 1..Len(fanout) :
        /\ fanout[n].pc = "done"
        /\ Len(fanout[n].listed) = 2
        /\ fanout[n].settled[1] = "failed"
        /\ fanout[n].settled[2] = "delivered"
        /\ Len(fanout[n].errors) = 1

\* The insert of the create in slot c was applied by the store.
Inserted(c) ==
    /\ call[c].op = "create" /\ call[c].pc \in {"resume", "done"}
    /\ call[c].id # <<>> /\ call[c].err = ""

\* C15: once the store insert of a new order has succeeded the POST answers
\* 201 with the created order and the order stays stored, whatever fails in
\* the notification: a write to a live stream, the listing of conversations,
\* the delivery to a conversation.
C15_PostIndependentOfNotification ==
    Inserted(1) =>
        /\ call[1].id \in DOMAIN table
        /\ table[call[1].id] = call[1].data
        /\ call[1].pc = "done" =>
             /\ call[1].resp.status = 201
             /\ call[1].resp.order.id = call[1].id
             /\ call[1].resp.order.customer = call[1].data.customer
             /\ call[1].resp.order.status = call[1].data.status
             /\ call[1].resp.order.date = call[1].data.date

C15_Witness ==
    /\ Inserted(1) /\ call[1].pc = "done" /\ call[1].resp.status = 201
    /\ \E s \in Sessions : \E i \in 1..Len(sessions[s].wrote) : ~sessions[s].wrote[i].delivered
    /\ \E n \in 1..Len(fanout) :
         /\ fanout[n].pc = "done"
         /\ \E i \in 1..Len(fanout[n].settled) : fanout[n].settled[i] = "failed"

\* The payload of the new-order event of the n-th notified order.
EventOf(n) == [type |-> Undefined, order |-> Stringify(notified[n])]

\* Per order, no stream has been written its event twice and no conversation
\* has been sent its card twice.
C16_OnceState ==
    \A n \in 1..Len(notified) :
        /\ \A s \in Sessions :
             Cardinality({i \in 1..Len(sessions[s].wrote) :
                            sessions[s].wrote[i].payload = EventOf(n)}) <= 1
        /\ \A id \in ConversationIds : Occurrences(fanout[n].attempts, id) <= 1

\* After the loop over the listed conversations no further delivery is
\* attempted, whatever the deliveries come to.
C16_NoRetryStep ==
    \A n \in 1..Len(fanout) :
        fanout[n].pc # "list" => fanout'[n].attempts = fanout[n].attempts

\* C16: fan-out is at most once per sink per event: for each created order
\* every live stream is written the event at most once, every conversation is
\* sent the card at most once, and a failed delivery is never retried.
C16_AtMostOnce == []C16_OnceState /\ [][C16_NoRetryStep]_vars

C16_Witness ==
    /\ Len(notified) = 1
    /\ \E s \in Sessions : Len(sessions[s].wrote) = 1
    /\ fanout[1].pc = "done"
    /\ \E i \in 1..Len(fanout[1].settled) : fanout[1].settled[i] = "failed"

\* The streams whose request has connected and has not closed yet.
ConnectedStreams == {s \in Sessions : sessions[s].state \in {"open", "destroyed"}}

\* The live set holds exactly the streams that connected and have not closed.
C20_LiveSetState == sseClients = ConnectedStreams

\* A close takes exactly its own stream out of the set; a broadcast writes the
\* new order once to every stream of the set that has not ended and to no
\* other stream.
C20_LiveSetStep ==
    /\ \A s \in Sessions :
         (sessions[s].state # "closed" /\ sessions'[s].state = "closed")
            => sseClients' = sseClients \ {s}
    /\ notified' # notified =>
         \A s \in Sessions :
            sessions'[s].wrote =
               IF s \in ConnectedStreams /\ ~sessions[s].ended
               THEN Append(sessions[s].wrote,
                           [payload |-> [type |-> Undefined,
                                         order |-> Stringify(notified'[Len(notified')])],
                            delivered |-> sessions[s].state = "open"])
               ELSE sessions[s].wrote
    /\ notified' = notified => \A s \in Sessions : sessions'[s].wrote = sessions[s].wrote

\* C20: in every reachable state the live set holds exactly the streams that
\* connected to /api/orders/events and whose request has not closed. A
\* disconnect removes only its own stream; a broadcast among connects and
\* disconnects writes the event exactly once to every stream that is in the
\* set and has not ended, and never to a removed or ended one.
C20_LiveSessions == []C20_LiveSetState /\ [][C20_LiveSetStep]_vars

C20_Witness ==
    /\ Len(notified) = 1
    /\ \E s \in Sessions : sessions[s].state = "closed" /\ sessions[s].wrote = <<>>
    /\ \E s \in Sessions : sessions[s].state = "open" /\ Len(sessions[s].wrote) = 1

\* The requests of the five HTTP handlers.
HttpOps == {"create", "update", "rename", "list", "listFor"}

\* A request in flight has not been answered; a finished one has been
\* answered 200, 201 or 500, and 500 with the error's text exactly when the
\* handler caught an error.
C17_AnsweredState ==
    \A c \in Calls :
        call[c].op \in HttpOps =>
            /\ call[c].pc # "done" => call[c].resp.status = 0
            /\ call[c].pc = "done" =>
                 /\ call[c].resp.status \in {200, 201, 500}
                 /\ call[c].resp.type = "application/json"
                 /\ call[c].ret.kind = "throw" =>
                      /\ call[c].resp.status = 500
                      /\ call[c].resp.error = call[c].ret.error
                 /\ call[c].resp.status = 500 <=> call[c].resp.error # ""
                 /\ call[c].resp.status = 500 =>
                      /\ call[c].resp.order = NoOrder
                      /\ call[c].resp.list = <<>>

\* An answer, once sent, stays the answer of its request.
C17_AnsweredStep ==
    \A c \in Calls :
        (call[c].resp.status # 0 /\ call'[c].resp # call[c].resp) => ops' = ops + 1

\* C17: every HTTP handler sends exactly one response per request; when the
\* repository operation fails the response is 500 with {error: message}, and
\* no other status code is used for a failure.
C17_OneResponse == []C17_AnsweredState /\ [][C17_AnsweredStep]_vars

C17_Witness ==
    /\ call[1].op = "update" /\ call[1].pc = "done"
    /\ call[1].resp.status = 500 /\ call[1].resp.error = ResourceNotFound
    /\ call[2].op = "create" /\ call[2].pc = "done" /\ call[2].resp.status = 201

\* C18: saveConversation is an upsert and removeConversation an idempotent
\* delete: after a save of a conversation id there is exactly one registration
\* for it, with the service URL of that save; removeConversation on an id
\* that has no registration succeeds and leaves the registry as it was.
C18_UpsertAndIdempotentDelete ==
    /\ Succeeded(1, "installAdd") =>
         /\ Cardinality({k \in DOMAIN subs : subs[k].conversationId = call[1].conv}) = 1
         /\ \A k \in DOMAIN subs :
              subs[k].conversationId = call[1].conv => subs[k].serviceUrl = call[1].serviceUrl
    /\ (/\ call[1].op = "installRemove" /\ call[1].pc = "done"
        /\ \A k \in DOMAIN call[1].preSubs :
             call[1].preSubs[k].conversationId # call[1].conv)
          => (call[1].ret.kind = "ok" /\ subs = call[1].preSubs)

\* C19: after any sequence of install.add and install.remove events over any
\* conversation ids, handled one at a time by a store that does not fail,
\* listConversations returns exactly the conversations whose most recent
\* event is install.add.
C19_ListIsLatestAdds ==
    (Quiet /\ faults = 0) =>
        LET ids == listConversations(subs)
        IN /\ {ids[i] : i \in 1..Len(ids)} = installed
           /\ Len(ids) = Cardinality(installed)

\* The streams whose response has ended (writableEnded).
Ended == {s \in Sessions : sessions[s].ended}

OpenStreams ==
    {s \in sseClients : sessions[s].state = "open" /\ ~sessions[s].ended}

\* The event that tells of the order a finished request stored.
MutationEvent(c) ==
    IF call[c].op = "create" THEN NewOrderPayload(call[c].ret.order)
    ELSE UpdatedPayload(call[c].ret.order)

\* C22: every successful order mutation (a creation through POST /api/orders,
\* an update through PUT /api/orders/:id, a status change through a card
\* action) is followed by an event written to every live stream that is open
\* at that time.
C22_EveryMutationPushed ==
    \A c \in Calls :
        (Succeeded(c, "create") \/ Succeeded(c, "update") \/ Succeeded(c, "action")) =>
            \A s \in OpenStreams :
                \E i \in 1..Len(sessions[s].wrote) :
                    sessions[s].wrote[i].payload = MutationEvent(c)

\* The step in which the card action of slot c returns.
ActionReturns(c) ==
    call[c].op = "action" /\ call[c].pc = "resume" /\ call'[c].pc = "done"

\* A card action that succeeds returns the confirmed card of the updated
\* order and hands one order.updated event with that order to every stream of
\* the set that has not ended, and to no other; one that fails returns a 500
\* error value, writes to no stream and leaves the table as the action found
\* it. No other step of a card action writes to a stream.
C23_ActionStep ==
    /\ (ActionReturns(1) /\ call'[1].ret.kind = "ok") =>
         LET o == call'[1].ret.order
         IN /\ o.id = call[1].id
            /\ o.status = (IF call[1].verb = "order.accept" THEN "Pending" ELSE "Cancelled")
            /\ o.customer = table[o.id].customer /\ o.date = table[o.id].date
            /\ table[o.id].status = o.status
            /\ call'[1].resp.status = 200
            /\ call'[1].resp.order = o
            /\ call'[1].resp.header =
                 (IF o.status = "Pending" THEN <<"Order Accepted">> ELSE <<"Order Cancelled">>)
            /\ \A s \in Sessions :
                 sessions'[s].wrote =
                   IF s \in sseClients /\ ~sessions[s].ended
                   THEN Append(sessions[s].wrote,
                               [payload |-> [type |-> "order.updated", order |-> o],
                                delivered |-> sessions[s].state = "open"])
                   ELSE sessions[s].wrote
    /\ (ActionReturns(1) /\ call'[1].ret.kind = "throw") =>
         /\ call'[1].resp.status = 500
         /\ call'[1].resp.type = "application/vnd.microsoft.error"
         /\ sessions' = sessions
         /\ table' = table /\ table = call[1].pre
    /\ (call[1].op = "action" /\ ~ActionReturns(1)) => sessions' = sessions

\* C23: a successful accept/cancel card action writes one event
\* {type: "order.updated", order} carrying the updated order to every open
\* live stream and returns the confirmed card; when the order lookup or the
\* write fails, the action returns a 500 error value, writes nothing to any
\* live stream and leaves the store unchanged.
C23_ActionOutcome == [][C23_ActionStep]_vars

C23_Witness ==
    /\ Succeeded(1, "action")
    /\ \E s \in OpenStreams :
         /\ Len(sessions[s].wrote) = 1
         /\ sessions[s].wrote[1].payload.type = "order.updated"
         /\ sessions[s].wrote[1].payload.order = call[1].ret.order
    /\ call[1].resp.header = <<"Order Cancelled">>

\* The orders a card action has been applied to, where the orders start as
\* Submitted and only card actions update them.
Actioned == {k \in DOMAIN table : table[k].status \in {"Pending", "Cancelled"}}

\* C24: after an accept or cancel card action has been applied to an order,
\* no further card action changes that order: a later order.accept or
\* order.cancel on the same order id leaves its status as the first action
\* set it.
C24_FirstActionStands ==
    [][\A k \in Actioned : k \in DOMAIN table' /\ table'[k].status = table[k].status]_vars

\* The entry of the Home view's list that shows the order o.
Shown(o) == [type |-> Undefined, order |-> o]

\* The step in which onmessage takes an event.
Hears(payload) == home'.heard = Append(home.heard, payload)

\* Every entry of the view's list is an order with a defined id.
C25_WellFormedList ==
    \A i \in 1..Len(home.orders) :
        /\ home.orders[i].type = Undefined
        /\ home.orders[i].order.id # <<>>

\* After onmessage has taken a status-change event the list holds its order,
\* with the status of the event.
C25_RefreshStep ==
    \A s \in Sessions : \A i \in 1..Len(sessions[s].wrote) :
        LET p == sessions[s].wrote[i].payload
        IN (p.type = "order.updated" /\ Hears(p)) =>
              \E j \in 1..Len(home'.orders) : home'.orders[j] = Shown(p.order)

\* C25: when a status-change event {type: "order.updated", order} arrives on
\* the live stream the Home view refreshes: its list then holds that order
\* with the new status, and after any sequence of stream events every entry
\* of the list is a well-formed order with a defined id.
C25_ViewRefreshes == []C25_WellFormedList /\ [][C25_RefreshStep]_vars

\* How many entries of the view's list have the id.
Entries(id) == Cardinality({i \in 1..Len(home.orders) : IdOf(home.orders[i]) = id})

\* No two entries of the list share an id.
C26_DistinctIds ==
    \A i, j \in 1..Len(home.orders) :
        IdOf(home.orders[i]) = IdOf(home.orders[j]) => i = j

\* Once the POST response or the new-order event of a created order has been
\* taken, the list holds one entry with its id.
C26_OnceStep ==
    /\ home'.answered # home.answered => Entries(call[1].resp.order.id)' = 1
    /\ \A n \in 1..Len(notified) :
         Hears(EventOf(n)) => Entries(notified[n].id)' = 1

\* C26: in the Home view, for any ordering of the POST /api/orders response
\* and the live-stream new-order event of the same created order, and any
\* number of repeated events, the list holds that order exactly once: in every
\* reachable state no two entries of the list share an id.
C26_CreatedOnce == []C26_DistinctIds /\ [][C26_OnceStep]_vars

C26_Witness ==
    /\ home.answered = 1
    /\ Len(notified) = 1
    /\ home.heard = <<EventOf(1), EventOf(1)>>
    /\ home.loaded
    /\ Entries(notified[1].id) = 1
    /\ Len(home.orders) = 2

\* The step in which the table service applies a replace-write of the
\* renameCustomer call in slot c.
RenameWrites(c) ==
    call[c].op = "rename" /\ call[c].pc = "write" /\ call'[c] # call[c]

\* C27: renameCustomer changes only the customer field of the orders it
\* matches: the stored status, amount and date of every order after a write
\* of the rename are those before it (those the latest completed updateOrder
\* wrote), also when an updateOrder on a matching order completes between the
\* rename's scan and its replace-write of that order.
C27_RenameKeepsOtherFields ==
    [][\A c \in Calls :
         RenameWrites(c) =>
           \A k \in DOMAIN table :
               /\ k \in DOMAIN table'
               /\ table'[k].status = table[k].status
               /\ table'[k].amount = table[k].amount
               /\ table'[k].date = table[k].date]_vars

\* The fields a patch sets.
Fields(patch) ==
    {f \in {"customer", "status", "date"} : patch[f] # Undefined}
      \cup (IF patch.amount # UndefinedAmount THEN {"amount"} ELSE {})

\* C28: when two updateOrder calls on the same order carry patches on
\* different fields and interleave in any way, the stored record after both
\* have completed reflects both patches: neither update is lost.
C28_NeitherUpdateLost ==
    (/\ Succeeded(1, "update") /\ Succeeded(2, "update")
     /\ call[1].id = call[2].id
     /\ Fields(call[1].data) \cap Fields(call[2].data) = {}) =>
        \A c \in Calls : \A f \in Fields(call[c].data) :
            table[call[c].id][f] = call[c].data[f]

\* The second rename takes back the first: renameCustomer(a, b) in slot 1,
\* then renameCustomer(b, a) in slot 2, for distinct a and b, both returned.
RenamedThereAndBack ==
    /\ Succeeded(1, "rename") /\ Succeeded(2, "rename")
    /\ call[1].oldName # call[1].newName
    /\ call[2].oldName = call[1].newName
    /\ call[2].newName = call[1].oldName

\* C29: for distinct names a and b, renameCustomer(a, b) followed by
\* renameCustomer(b, a), run without interleaving, restores every order's
\* customer to its initial value if and only if no order had customer b
\* before the first call; when some order had customer b, those orders end
\* with customer a and the second call's count is the first call's count plus
\* the number of orders that initially had customer b.
C29_ThereAndBack ==
    RenamedThereAndBack =>
        LET before == call[1].pre
            a == call[1].oldName
            b == call[1].newName
            hadB == OrdersOf(before, b)
        IN /\ DOMAIN table = DOMAIN before
           /\ (\A k \in DOMAIN before : table[k].customer = before[k].customer)
                 <=> hadB = {}
           /\ \A k \in hadB : table[k].customer = a
           /\ call[2].ret.count = call[1].ret.count + Cardinality(hadB)

C29_Witness ==
    /\ RenamedThereAndBack
    /\ call[1].ret.count = 1
    /\ call[2].ret.count = 2
    /\ OrdersOf(call[1].pre, call[1].newName) # {}

\* Some stream is written to in this step.
WritesToStream == \E s \in Sessions : sessions'[s].wrote # sessions[s].wrote

\* Every order that notify was handed, every event on a stream and every
\* broadcast of cards belongs to a stored order.
C30_OnlyStoredOrders ==
    /\ \A n \in 1..Len(notified) : notified[n].id \in DOMAIN table
    /\ \A s \in Sessions : \A i \in 1..Len(sessions[s].wrote) :
         sessions[s].wrote[i].payload.order.id \in DOMAIN table
    /\ Len(fanout) = Len(notified)

\* The order of the steps of one POST: notify is invoked and streams are
\* written only by a request whose insert was accepted, with the order in the
\* table and no response sent yet; that step answers 201 and leaves the cards
\* for later; the cards of an order are attempted in a later step; a request
\* whose insert was rejected ends without notify, without a write to a stream
\* and without a broadcast of cards.
C30_OrderedStep ==
    /\ (notified' # notified \/ WritesToStream) =>
         /\ call[1].op = "create" /\ call[1].pc = "resume" /\ call[1].err = ""
         /\ call[1].id \in DOMAIN table
         /\ call[1].resp.status = 0
         /\ call'[1].resp.status = 201
         /\ notified' = Append(notified, call'[1].resp.order)
         /\ Len(fanout') = Len(fanout) + 1
         /\ fanout'[Len(fanout')].pc = "list"
         /\ fanout'[Len(fanout')].attempts = <<>>
    /\ (call[1].resp.status = 0 /\ call'[1].resp.status = 201) =>
         \A s \in sseClients :
             ~sessions[s].ended =>
                 /\ Len(sessions'[s].wrote) = Len(sessions[s].wrote) + 1
                 /\ sessions'[s].wrote[Len(sessions'[s].wrote)].payload
                      = EventOf(Len(notified))'
    /\ \A n \in 1..Len(fanout) :
         fanout'[n].attempts # fanout[n].attempts =>
             /\ n <= Len(notified)
             /\ fanout[n].attempts = <<>>
             /\ notified' = notified /\ sessions' = sessions
    /\ (call[1].op = "create" /\ call[1].pc # "done" /\ call'[1].pc = "done"
          /\ call'[1].ret.kind = "throw") =>
         /\ notified' = notified /\ sessions' = sessions /\ fanout' = fanout

\* C30: for each POST /api/orders the steps are ordered: the store insert
\* completes before anything is written to a live stream; the writes to the
\* streams happen before the 201 response is sent and before any delivery to
\* a conversation is attempted; and when the insert fails the notification
\* callback is never invoked, so no live stream and no conversation receives
\* an event for an order that is not stored.
C30_PostStepsOrdered == []C30_OnlyStoredOrders /\ [][C30_OrderedStep]_vars

C30_Witness ==
    /\ Succeeded(1, "create")
    /\ \E s \in Sessions : Len(sessions[s].wrote) = 1
    /\ Len(fanout) = 1 /\ Len(fanout[1].attempts) = 2
    /\ fanout[1].pc = "done"

====
